---- MODULE Spec2Model ----
(***************************************************************************)
(* ImageProcessor: the ingest transaction (ImageUsecase.UploadImage), the  *)
(* delete flow (ImageUsecase.DeleteImage), the broker consumer              *)
(* (ConsumerClient) and the worker pool (Worker.processWorker /            *)
(* Worker.processMessage / ImageProcessor.Process), over an object store,  *)
(* the images / processed_images relations and one tasks topic.            *)
(* Every call to an external store is a step of its own and may fail.      *)
(***************************************************************************)
EXTENDS Integers, Sequences, FiniteSets, TLC

\* ------------------------------------------------------------------ bounds
MaxUploads == 1      \* number of UploadImage calls
Concurrency == 2     \* cfg.Worker.Concurrency: handlers of the pool
MaxRestarts == 1     \* crashes / restarts of the worker process
ExtraBacklog == 1    \* messages of a backlog beyond what the worker can hold
MaxEdge == 5         \* largest width and height of a source image
MaxOps == 3          \* operations of a task handed to Process
MaxTall == 11        \* largest height of a source image handed to the Resizer
MaxBox == 15         \* largest edge of the box a resize asks for
MaxPartition == 1    \* largest partition number of the topic
MaxOffset == 2       \* largest offset of a message handed to Commit

\* -------------------------------------------------------- program constants
DefaultMaxUploadSize == 33554432
Precision == 53    \* bits of the significand of a float64
Part == 18         \* bits of a part of a significand in a multiplication
DefaultThumbnailSize == 200

StatusUploaded == "uploaded"
StatusProcessing == "processing"
StatusCompleted == "completed"
StatusFailed == "failed"
StatusDeleted == "deleted"
NoRow == "none"      \* no row with that id in the images relation

OpResize == "resize"
OpThumbnail == "thumbnail"
OpWatermark == "watermark"
OpCrop == "crop"

ErrFileTooLarge == "file too large"
ErrInvalidFileFormat == "invalid file format"
ErrStorageError == "storage error"
ErrDatabaseError == "database error"
ErrMessageQueueError == "message queue error"
ErrImageNotFound == "image not found"
RepoErrImageNotFound == "repository: image not found"
ErrHeaderRead == "failed to read file header"

Calls == 1 .. MaxUploads
Handlers == 1 .. Concurrency

\* uuid.New().String() of the call: fresh for every call
NewImageID(c) == "id" \o ToString(c)
ImageIDs == {NewImageID(c) : c \in Calls}

\* ------------------------------------------------------------ string helpers
HasPrefix(s, p) == Len(s) >= Len(p) /\ SubSeq(s, 1, Len(p)) = p

Contains(s, sub) ==
    \E i \in 1 .. (Len(s) - Len(sub) + 1) : SubSeq(s, i, i + Len(sub) - 1) = sub

\* ------------------------------------------------------------------ inputs
\* A parameter map: every key holds <<>> (absent) or <<value>>.
NoParams ==
    [size |-> <<>>, crop_to_fit |-> <<>>, width |-> <<>>, height |-> <<>>,
     keep_aspect |-> <<>>, text |-> <<>>]

ThumbnailOp(size, crop) ==
    [Type |-> OpThumbnail,
     Parameters |-> [NoParams EXCEPT !.size = <<size>>, !.crop_to_fit = <<crop>>]]

ResizeOp(w, h, keep) ==
    [Type |-> OpResize,
     Parameters |-> [NoParams EXCEPT !.width = <<w>>, !.height = <<h>>,
                                     !.keep_aspect = <<keep>>]]

WatermarkOp(text) ==
    [Type |-> OpWatermark, Parameters |-> [NoParams EXCEPT !.text = <<text>>]]

\* the operation lists an upload may carry
DefaultOperations == <<ThumbnailOp(200, TRUE), ResizeOp(1024, 768, TRUE)>>
OpLists == {DefaultOperations, <<ThumbnailOp(200, TRUE), ThumbnailOp(100, TRUE)>>}

\* The operation fields of the upload form (url.Values): "" is an absent field.
NoForm == [thumbnail |-> "", resize |-> "", watermark |-> "", watermark_text |-> ""]

\* Variant of parseOperationsFromForm without the final default list.
parseOperationsNoDefaults(form) ==
    (IF form.thumbnail = "true" THEN <<ThumbnailOp(200, TRUE)>> ELSE <<>>)
        \o (IF form.resize = "true" THEN <<ResizeOp(1024, 768, TRUE)>> ELSE <<>>)
        \o (IF form.watermark = "true"
            THEN <<WatermarkOp(IF form.watermark_text # ""
                               THEN form.watermark_text
                               ELSE "(c) ImageProcessor")>>
            ELSE <<>>)

\* ImageHandler.parseOperationsFromForm: one operation for each field that is
\* "true", in the order thumbnail, resize, watermark; when that leaves the list
\* empty, thumbnail 200 crop_to_fit followed by resize 1024x768 keep_aspect.
\* (The watermark's opacity and position are fixed and are left out.)
parseOperationsFromForm(form) ==
    LET operations ==
            (IF form.thumbnail = "true" THEN <<ThumbnailOp(200, TRUE)>> ELSE <<>>)
                \o (IF form.resize = "true" THEN <<ResizeOp(1024, 768, TRUE)>> ELSE <<>>)
                \o (IF form.watermark = "true"
                    THEN <<WatermarkOp(IF form.watermark_text # ""
                                       THEN form.watermark_text
                                       ELSE "(c) ImageProcessor")>>
                    ELSE <<>>)
    IN  IF Len(operations) = 0
        THEN <<ThumbnailOp(200, TRUE), ResizeOp(1024, 768, TRUE)>>
        ELSE operations

\* the forms POST /upload is called with
Forms == {NoForm, [NoForm EXCEPT !.thumbnail = "true"]}

\* What UploadImage is called with: the list the handler parsed from a form, or
\* a list handed to the use case directly (form <<>>).
UploadInputs ==
    {[form |-> <<f>>, ops |-> parseOperationsFromForm(f)] : f \in Forms}
        \cup {[form |-> <<>>, ops |-> o] : o \in OpLists}

\* what the uploaded stream holds: "empty" is a stream of zero bytes
FileKinds == {"jpeg", "gif", "webp", "text", "empty"}
FileSizes == {0, 1024, DefaultMaxUploadSize + 1}

\* http.DetectContentType on the first 512 bytes
DetectContentType(kind) ==
    CASE kind = "jpeg" -> "image/jpeg"
      [] kind = "png" -> "image/png"
      [] kind = "gif" -> "image/gif"
      [] kind = "webp" -> "image/webp"
      [] OTHER -> "text/plain; charset=utf-8"

getFormatFromContentType(contentType) ==
    CASE Contains(contentType, "jpeg") -> "jpeg"
      [] Contains(contentType, "png") -> "png"
      [] Contains(contentType, "gif") -> "gif"
      [] Contains(contentType, "webp") -> "webp"
      [] Contains(contentType, "bmp") -> "bmp"
      [] Contains(contentType, "tiff") -> "tiff"
      [] OTHER -> "jpeg"

\* ------------------------------------------------------------- object store
Put(s, path, data) == (path :> data) @@ s
Remove(s, paths) == [q \in (DOMAIN s) \ paths |-> s[q]]
Exists(s, path) == path \in DOMAIN s

OriginalData(kind) == [format |-> kind, op |-> "original"]
DerivedData(fmt, opType) == [format |-> fmt, op |-> opType]

\* SaveOriginal's object name: original/YYYY/MM/DD/<nanos><ext>
Today == "2026/01/02"
OriginalName(nanos, ext) ==
    "original/" \o Today \o "/" \o ToString(nanos) \o ext

\* ------------------------------------------------------------ broker messages
NoTask ==
    [ID |-> "", ImageID |-> "", OriginalPath |-> "", Bucket |-> "",
     Operations |-> <<>>, Format |-> ""]
NoMsg == [Key |-> "", Value |-> NoTask, Offset |-> -1]

\* a row of the images relation (the columns the flows read or write)
NoImage == [status |-> NoRow, original_path |-> ""]

VARIABLES
    up,            \* the UploadImage calls: position, inputs, locals, result
    del,           \* the DeleteImage calls, one per uploaded image
    images,        \* relation images: id -> row (status NoRow: no such row)
    rows,          \* relation processed_images
    store,         \* object store: path -> object
    now,           \* clock read by SaveOriginal
    topic,         \* the tasks topic (one partition): sequence of messages
    committed,     \* the consumer group's committed position on the partition
    fetchPos,      \* next offset the reader of this worker process delivers
    hold,          \* message held by the forwarding goroutine of Start
    latestOffset,  \* ConsumerClient.latestOffset
    messages,      \* Worker.Run's channel of capacity 2 * concurrency
    hs,            \* the handlers (processWorker goroutines)
    restarts,      \* number of times the worker process was killed and restarted
    runKeys,       \* per image: the keys written by each complete run of Process
    call,          \* one call of a function of the program: its input and result
    run            \* Worker.Run: where it stands, and the forwarding goroutine

vars == <<up, del, images, rows, store, now, topic, committed, fetchPos, hold,
          latestOffset, messages, hs, restarts, runKeys, call, run>>

storeVars == <<images, rows, store>>
consumerVars == <<committed, fetchPos, hold, latestOffset, messages>>

NoUpload ==
    [pc |-> "init", size |-> 0, kind |-> "", form |-> <<>>, ops |-> <<>>, imageID |-> "",
     originalPath |-> "", err |-> FALSE, ret |-> "none", imgStatus |-> "",
     cleanup |-> "none", rowAtReturn |-> ""]

\* status is img.Status as GetByID read it; settled notes whether the image's
\* task was committed and out of the worker's hands when DeleteImage began
NoDelete ==
    [pc |-> "idle", ret |-> "none", originalPath |-> "", status |-> "",
     settled |-> FALSE]

IdleHandler ==
    [pc |-> "idle", msg |-> NoMsg, task |-> NoTask, decoded |-> "", k |-> 0,
     paths |-> <<>>, todo |-> {}, keys |-> {}]

\* Worker.Run waits for the shutdown signal, the forwarding goroutine of
\* ConsumerClient.Start runs
Serving == [pc |-> "serving", fwd |-> "running"]

\* no function call under way
NoCall == [fn |-> "", in |-> <<>>, out |-> <<>>]

\* the stores empty, no call begun, the consumer at the start of the partition
SysInit ==
    /\ up = [c \in Calls |-> NoUpload]
    /\ del = [c \in Calls |-> NoDelete]
    /\ images = [id \in ImageIDs |-> NoImage]
    /\ rows = {}
    /\ store = <<>>
    /\ now = 1
    /\ topic = <<>>
    /\ committed = 0
    /\ fetchPos = 0
    /\ hold = NoMsg
    /\ latestOffset = 0
    /\ messages = <<>>
    /\ hs = [h \in Handlers |-> IdleHandler]
    /\ restarts = 0
    /\ runKeys = [id \in ImageIDs |-> <<>>]

Init == SysInit /\ call = NoCall /\ run = Serving

\* ------------------------------------------------------- metadata store adapter
\* ImagesRepository.Save: INSERT INTO images; a duplicate id or a driver error fails.
Save(tbl, img, ok) ==
    IF ok /\ tbl[img.id].status = NoRow
    THEN [images |-> [tbl EXCEPT ![img.id] =
                        [status |-> img.status, original_path |-> img.original_path]],
          err |-> FALSE]
    ELSE [images |-> tbl, err |-> TRUE]

\* ImagesRepository.UpdateStatus: UPDATE images SET status = $1 WHERE id = $3;
\* zero rows affected is image-not-found.
UpdateStatus(tbl, id, status, ok) ==
    IF ~ok THEN [images |-> tbl, err |-> TRUE]
    ELSE IF tbl[id].status = NoRow THEN [images |-> tbl, err |-> TRUE]
    ELSE [images |-> [tbl EXCEPT ![id].status = status], err |-> FALSE]

\* ImagesRepository.GetByID: WHERE id = $1 AND status != 'deleted'
GetByID(tbl, id, ok) ==
    IF ~ok THEN [err |-> "failed to query image", img |-> NoImage]
    ELSE IF id \notin DOMAIN tbl \/ tbl[id].status \in {NoRow, StatusDeleted}
    THEN [err |-> RepoErrImageNotFound, img |-> NoImage]
    ELSE [err |-> "", img |-> tbl[id]]

\* ImagesRepository.List: WHERE status != 'deleted'
List(tbl) == {id \in DOMAIN tbl : tbl[id].status \notin {NoRow, StatusDeleted}}

\* ImagesRepository.SaveProcessedImage: a plain INSERT under a fresh uuid; n tells
\* apart the rows that agree on every other column.
RowsOf(tbl, id, op) == {r \in tbl : r.image_id = id /\ r.operation = op}

SaveProcessedImage(tbl, id, op, path, ok) ==
    IF ok
    THEN tbl \cup {[image_id |-> id, operation |-> op, path |-> path,
                    n |-> Cardinality({r \in RowsOf(tbl, id, op) : r.path = path}) + 1]}
    ELSE tbl

\* ImagesRepository.DeleteProcessedImages
DeleteProcessedImages(tbl, id, ok) ==
    IF ok THEN {r \in tbl : r.image_id # id} ELSE tbl

\* --------------------------------------------------------- object store adapter
\* FileRepository.SaveOriginal: the object name is built from the clock and the
\* extension of the file name; PutObject may fail.
SaveOriginal(s, kind, ok) ==
    IF ok
    THEN [path |-> OriginalName(now, ".jpg"),
          store |-> Put(s, OriginalName(now, ".jpg"), OriginalData(kind))]
    ELSE [path |-> "", store |-> s]

\* FileRepository.DeleteObject
DeleteObject(s, path, ok) == IF ok THEN Remove(s, {path}) ELSE s

\* strings.Split(path, "/")
RECURSIVE SplitPath(_)
SplitPath(path) ==
    IF ~Contains(path, "/") THEN <<path>>
    ELSE LET i == CHOOSE k \in 1 .. Len(path) :
                      /\ SubSeq(path, k, k) = "/"
                      /\ \A j \in 1 .. (k - 1) : SubSeq(path, j, j) # "/"
         IN  <<SubSeq(path, 1, i - 1)>> \o SplitPath(SubSeq(path, i + 1, Len(path)))

RECURSIVE JoinPath(_)
JoinPath(segs) ==
    IF segs = <<>> THEN ""
    ELSE IF Len(segs) = 1 THEN segs[1]
    ELSE segs[1] \o "/" \o JoinPath(Tail(segs))

\* The elements filepath.Clean keeps: empty and "." elements go, an inner ".."
\* goes together with the element before it, a ".." at the head of a rooted
\* path goes, a ".." at the head of a relative path stays.
RECURSIVE CleanSegments(_, _, _)
CleanSegments(segs, kept, rooted) ==
    IF segs = <<>> THEN kept
    ELSE LET e == Head(segs)
             rest == Tail(segs)
         IN  IF e = "" \/ e = "." THEN CleanSegments(rest, kept, rooted)
             ELSE IF e = ".."
             THEN IF kept # <<>> /\ kept[Len(kept)] # ".."
                  THEN CleanSegments(rest, SubSeq(kept, 1, Len(kept) - 1), rooted)
                  ELSE IF rooted THEN CleanSegments(rest, kept, rooted)
                  ELSE CleanSegments(rest, Append(kept, ".."), rooted)
             ELSE CleanSegments(rest, Append(kept, e), rooted)

\* filepath.Clean
Clean(path) ==
    LET rooted == HasPrefix(path, "/")
        out == JoinPath(CleanSegments(SplitPath(path), <<>>, rooted))
    IN  IF rooted THEN "/" \o out
        ELSE IF out = "" THEN "."
        ELSE out

\* strings.TrimPrefix
TrimPrefix(s, prefix) ==
    IF HasPrefix(s, prefix) THEN SubSeq(s, Len(prefix) + 1, Len(s)) ELSE s

\* sanitizePath: the cleaned path is refused when it starts with ".." or holds
\* "/../"; otherwise it is returned without its leading slash.
sanitizePath(path) ==
    LET clean == Clean(path)
    IN  IF HasPrefix(clean, "..") \/ Contains(clean, "/../")
        THEN [err |-> TRUE, path |-> ""]
        ELSE [err |-> FALSE, path |-> TrimPrefix(clean, "/")]

\* the object name the adapter works on
CleanPath(path) == sanitizePath(path).path

\* FileRepository.DeleteObjectsWithPrefix: lists the keys under the cleaned prefix
\* and removes them
DeleteObjectsWithPrefix(s, prefix, ok) ==
    IF ok THEN Remove(s, {q \in DOMAIN s : HasPrefix(q, CleanPath(prefix))}) ELSE s

\* FileRepository.SaveProcessed
SaveProcessed(s, path, data, ok) == IF ok THEN Put(s, path, data) ELSE s

\* ---------------------------------------------------------- GetStatus
\* ImageUsecase.GetStatus: the error of GetByID is compared with the use case's
\* own ErrImageNotFound; every other error is wrapped as database-error.
GetStatus(tbl, id, ok) ==
    LET r == GetByID(tbl, id, ok)
    IN  IF r.err = "" THEN [status |-> r.img.status, err |-> ""]
        ELSE IF r.err = ErrImageNotFound THEN [status |-> "", err |-> ErrImageNotFound]
        ELSE [status |-> "", err |-> ErrDatabaseError]

\* ImageUsecase.GetImage up to its GetByID: the same comparison
GetImageError(tbl, id, ok) ==
    LET r == GetByID(tbl, id, ok)
    IN  IF r.err = "" THEN ""
        ELSE IF r.err = ErrImageNotFound THEN ErrImageNotFound
        ELSE ErrDatabaseError

\* ImageUsecase.DeleteImage up to its GetByID: the same comparison
DeleteImageError(tbl, id, ok) ==
    LET r == GetByID(tbl, id, ok)
    IN  IF r.err = "" THEN ""
        ELSE IF r.err = ErrImageNotFound THEN ErrImageNotFound
        ELSE ErrDatabaseError

\* ImageHandler.handleStatusError: the HTTP status of a failed GetStatus
handleStatusError(err) == IF err = ErrImageNotFound THEN 404 ELSE 500

\* The gates at the head of UploadImage, in the order of the code: the size,
\* io.ReadFull of the header (io.EOF for a stream of zero bytes is returned as
\* an error of its own), the detected type. "" lets the call go on.
UploadGate(size, kind) ==
    IF size > DefaultMaxUploadSize THEN ErrFileTooLarge
    ELSE IF kind = "empty" THEN ErrHeaderRead
    ELSE IF ~HasPrefix(DetectContentType(kind), "image/") THEN ErrInvalidFileFormat
    ELSE ""

\* Entry of UploadImage: the size gate, the header read and the magic-byte
\* gate, then the id is allocated and the deferred cleanup registered.
U_Start(c) ==
    /\ up[c].pc = "init"
    /\ \E size \in FileSizes, kind \in FileKinds, req \in UploadInputs :
         /\ (kind = "empty") <=> (size = 0)
         /\ LET in == [up[c] EXCEPT !.size = size, !.kind = kind, !.form = req.form,
                                       !.ops = req.ops]
                gate == UploadGate(size, kind)
            IN  up' = [up EXCEPT ![c] =
                    IF gate # ""
                    THEN [in EXCEPT !.pc = "done", !.ret = gate]
                    ELSE [in EXCEPT !.pc = "save", !.imageID = NewImageID(c)]]
    /\ UNCHANGED <<del, storeVars, now, topic, consumerVars, hs, restarts, runKeys, call, run>>

\* step 4: originalPath, err = i.fileRepo.SaveOriginal(...)
U_SaveOriginal(c) ==
    /\ up[c].pc = "save"
    /\ \E ok \in BOOLEAN :
         LET r == SaveOriginal(store, up[c].kind, ok)
         IN  /\ store' = r.store
             /\ now' = now + 1
             /\ up' = [up EXCEPT ![c] =
                    IF ok
                    THEN [@ EXCEPT !.pc = "insert", !.originalPath = r.path]
                    ELSE [@ EXCEPT !.pc = "defer", !.err = TRUE,
                                   !.ret = ErrStorageError]]
    /\ UNCHANGED <<del, images, rows, topic, consumerVars, hs, restarts, runKeys, call, run>>

\* Variant of step 5 in which the error of Save lands in a shadowed variable
\* (err := ...), so that the deferred function does not see it.
U_SaveShadowedErr(c) ==
    /\ up[c].pc = "insert"
    /\ \E ok \in BOOLEAN :
         LET r == Save(images, [id |-> up[c].imageID, status |-> StatusUploaded,
                                original_path |-> up[c].originalPath], ok)
         IN  /\ images' = r.images
             /\ up' = [up EXCEPT ![c] =
                    IF r.err
                    THEN [@ EXCEPT !.pc = "defer", !.ret = ErrDatabaseError]
                    ELSE [@ EXCEPT !.pc = "publish", !.imgStatus = StatusUploaded]]
    /\ UNCHANGED <<del, rows, store, now, topic, consumerVars, hs, restarts, runKeys,
                   call, run>>

\* step 5: err = i.repo.Save(ctx, img) with status uploaded
U_Save(c) ==
    /\ up[c].pc = "insert"
    /\ \E ok \in BOOLEAN :
         LET r == Save(images, [id |-> up[c].imageID, status |-> StatusUploaded,
                                original_path |-> up[c].originalPath], ok)
         IN  /\ images' = r.images
             /\ up' = [up EXCEPT ![c] =
                    IF r.err
                    THEN [@ EXCEPT !.pc = "defer", !.err = TRUE,
                                   !.ret = ErrDatabaseError]
                    ELSE [@ EXCEPT !.pc = "publish", !.imgStatus = StatusUploaded]]
    /\ UNCHANGED <<del, rows, store, now, topic, consumerVars, hs, restarts, runKeys,
                   call, run>>

\* the ProcessingTask built by UploadImage (json.Marshal of it cannot fail)
NewTask(c) ==
    [ID |-> "task" \o ToString(c),
     ImageID |-> up[c].imageID,
     OriginalPath |-> up[c].originalPath,
     Bucket |-> "images",
     Operations |-> up[c].ops,
     Format |-> getFormatFromContentType(DetectContentType(up[c].kind))]

\* Variant of SendTask whose retry writes the message a second time.
SendTaskTwice(log, key, value) ==
    Append(Append(log, [Key |-> key, Value |-> value, Offset |-> Len(log)]),
           [Key |-> key, Value |-> value, Offset |-> Len(log) + 1])

\* ProducerClient.SendTask: the message is appended to the topic
SendTask(log, key, value) ==
    Append(log, [Key |-> key, Value |-> value, Offset |-> Len(log)])

\* step 6: err = i.producer.SendTask(...)
U_Publish(c) ==
    /\ up[c].pc = "publish"
    /\ \E ok \in BOOLEAN :
         IF ok
         THEN /\ topic' = SendTask(topic, up[c].imageID, NewTask(c))
              /\ up' = [up EXCEPT ![c].pc = "processing"]
         ELSE /\ topic' = topic
              /\ up' = [up EXCEPT ![c].pc = "markfailed", ![c].err = TRUE]
    /\ UNCHANGED <<del, storeVars, now, consumerVars, hs, restarts, runKeys, call, run>>

\* publish failed: UpdateStatus(failed), best effort, then message-queue-error
U_MarkFailed(c) ==
    /\ up[c].pc = "markfailed"
    /\ \E ok \in BOOLEAN :
         images' = UpdateStatus(images, up[c].imageID, StatusFailed, ok).images
    /\ up' = [up EXCEPT ![c].pc = "defer", ![c].ret = ErrMessageQueueError]
    /\ UNCHANGED <<del, rows, store, now, topic, consumerVars, hs, restarts, runKeys,
                   call, run>>

\* step 7: err = i.repo.UpdateStatus(ctx, imageID, processing): the error is
\* assigned to the function's err variable, the Image is returned either way.
U_UpdateProcessing(c) ==
    /\ up[c].pc = "processing"
    /\ \E ok \in BOOLEAN :
         LET r == UpdateStatus(images, up[c].imageID, StatusProcessing, ok)
         IN  /\ images' = r.images
             /\ up' = [up EXCEPT ![c] =
                    [@ EXCEPT !.pc = "defer", !.err = r.err, !.ret = "ok",
                              !.imgStatus = IF r.err THEN StatusUploaded
                                            ELSE StatusProcessing]]
    /\ UNCHANGED <<del, rows, store, now, topic, consumerVars, hs, restarts, runKeys,
                   call, run>>

\* Variant of UploadImage without the deferred cleanup of the original.
U_DeferNoCleanup(c) ==
    /\ up[c].pc = "defer"
    /\ LET row == IF up[c].imageID \in DOMAIN images
                  THEN images[up[c].imageID].status ELSE NoRow
       IN  up' = [up EXCEPT ![c].pc = "done", ![c].rowAtReturn = row]
    /\ UNCHANGED <<del, images, rows, store, now, topic, consumerVars, hs, restarts,
                   runKeys, call, run>>

\* The deferred function of UploadImage, run as the call returns: it reads the
\* err variable of the function, not the error that is returned.  cleanup notes
\* how its DeleteObject ended, rowAtReturn the status of the row at the return.
U_Defer(c) ==
    /\ up[c].pc = "defer"
    /\ LET row == IF up[c].imageID \in DOMAIN images
                  THEN images[up[c].imageID].status ELSE NoRow
       IN  IF up[c].err /\ up[c].originalPath # ""
           THEN \E ok \in BOOLEAN :
                  /\ store' = DeleteObject(store, up[c].originalPath, ok)
                  /\ up' = [up EXCEPT ![c].pc = "done",
                                      ![c].rowAtReturn = row,
                                      ![c].cleanup = IF ok THEN "ok" ELSE "failed"]
           ELSE /\ store' = store
                /\ up' = [up EXCEPT ![c].pc = "done", ![c].rowAtReturn = row]
    /\ UNCHANGED <<del, images, rows, now, topic, consumerVars, hs, restarts, runKeys,
                   call, run>>

\* ------------------------------------------------------- where a task stands
\* number of messages of the topic whose key is id
Published(id) == Cardinality({o \in 1 .. Len(topic) : topic[o].Key = id})

\* the call has returned the Image without error
ReturnedOK(c) == up[c].pc = "done" /\ up[c].ret = "ok"

\* a delivery of a message of id is under way in the worker process
InFlight(id) ==
    \/ hold.Key = id
    \/ \E i \in 1 .. Len(messages) : messages[i].Key = id
    \/ \E h \in Handlers : hs[h].msg.Key = id

\* every message of id is committed and none is in the worker's hands: no
\* delivery of it is left, now or after a restart
Consumed(id) ==
    /\ Published(id) > 0
    /\ \A o \in 1 .. Len(topic) : topic[o].Key = id => topic[o].Offset < committed
    /\ ~InFlight(id)

\* --------------------------------------------------------------- DeleteImage
\* DeleteImage up to its GetByID; the use case compares the repository's error
\* with its own ErrImageNotFound value.
D_Start(c) ==
    /\ del[c].pc = "idle"
    /\ up[c].pc = "done" /\ up[c].ret = "ok"
    /\ \E ok \in BOOLEAN :
         LET r == GetByID(images, up[c].imageID, ok)
         IN  del' = [del EXCEPT ![c] =
                 IF r.err = ErrImageNotFound
                 THEN [@ EXCEPT !.pc = "done", !.ret = ErrImageNotFound]
                 ELSE IF r.err # ""
                 THEN [@ EXCEPT !.pc = "done", !.ret = ErrDatabaseError]
                 ELSE [@ EXCEPT !.pc = "object",
                                !.originalPath = r.img.original_path,
                                !.status = r.img.status,
                                !.settled = Consumed(up[c].imageID)]]
    /\ UNCHANGED <<up, storeVars, now, topic, consumerVars, hs, restarts, runKeys, call, run>>

\* i.fileRepo.DeleteObject(ctx, img.OriginalPath): a failure is logged
D_DeleteObject(c) ==
    /\ del[c].pc = "object"
    /\ \E ok \in BOOLEAN : store' = DeleteObject(store, del[c].originalPath, ok)
    /\ del' = [del EXCEPT ![c].pc = "prefix"]
    /\ UNCHANGED <<up, images, rows, now, topic, consumerVars, hs, restarts, runKeys,
                   call, run>>

\* i.fileRepo.DeleteObjectsWithPrefix(ctx, "processed/<id>/"): a failure is logged
D_DeletePrefix(c) ==
    /\ del[c].pc = "prefix"
    /\ \E ok \in BOOLEAN :
         store' = DeleteObjectsWithPrefix(
                      store, "processed/" \o up[c].imageID \o "/", ok)
    /\ del' = [del EXCEPT ![c].pc = "rows"]
    /\ UNCHANGED <<up, images, rows, now, topic, consumerVars, hs, restarts, runKeys,
                   call, run>>

\* i.repo.DeleteProcessedImages(ctx, id): a failure is logged
D_DeleteRows(c) ==
    /\ del[c].pc = "rows"
    /\ \E ok \in BOOLEAN : rows' = DeleteProcessedImages(rows, up[c].imageID, ok)
    /\ del' = [del EXCEPT ![c].pc = "status"]
    /\ UNCHANGED <<up, images, store, now, topic, consumerVars, hs, restarts, runKeys,
                   call, run>>

\* i.repo.UpdateStatus(ctx, id, deleted) and the return of DeleteImage
D_Status(c) ==
    /\ del[c].pc = "status"
    /\ \E ok \in BOOLEAN :
         LET r == UpdateStatus(images, up[c].imageID, StatusDeleted, ok)
         IN  /\ images' = r.images
             /\ del' = [del EXCEPT ![c].pc = "done",
                                   ![c].ret = IF r.err THEN ErrDatabaseError ELSE "ok"]
    /\ UNCHANGED <<up, rows, store, now, topic, consumerVars, hs, restarts, runKeys, call, run>>

\* ---------------------------------------------------------- transform engine
\* image.Decode with the registered decoders (gif, jpeg, png)
Decodable(kind) == kind \in {"jpeg", "png", "gif"}

\* strings.ToLower on the letters of the Latin alphabet
RECURSIVE ToLower(_)
ToLower(s) ==
    IF s = "" THEN ""
    ELSE LET upper == "ABCDEFGHIJKLMNOPQRSTUVWXYZ"
             lower == "abcdefghijklmnopqrstuvwxyz"
             c == SubSeq(s, 1, 1)
             at == {i \in 1 .. Len(upper) : SubSeq(upper, i, i) = c}
         IN  (IF at = {} THEN c
              ELSE LET i == CHOOSE i \in at : TRUE IN SubSeq(lower, i, i))
                 \o ToLower(SubSeq(s, 2, Len(s)))

\* the encoder switch of Thumbnailer and Resizer (processGIF for gif)
StaticFormat(format) ==
    CASE ToLower(format) \in {"jpg", "jpeg"} -> "jpeg"
      [] ToLower(format) = "png" -> "png"
      [] ToLower(format) = "gif" -> "gif"
      [] OTHER -> "jpeg"

\* Variant of WatermarkFormat that keeps a gif a gif.
WatermarkFormatKeepGif(format) == StaticFormat(format)

\* the encoder switch of Watermarker.Process: gif is flattened to jpeg
WatermarkFormat(format) ==
    CASE ToLower(format) \in {"jpg", "jpeg"} -> "jpeg"
      [] ToLower(format) = "png" -> "png"
      [] OTHER -> "jpeg"

\* Variant of scaleEdge that rounds to the nearest integer.
scaleEdgeNearest(edge, size, other) == (2 * edge * size + other) \div (2 * other)

\* int(float64(edge) * float64(size) / float64(other)): for the non-negative
\* values below 2^53 met here the conversion cuts the fraction off
scaleEdge(edge, size, other) == (edge * size) \div other

\* Thumbnailer.cropAndResize: the square cut from the source (origin and edge),
\* scaled to size x size
cropAndResize(w, h, size) ==
    IF w > h
    THEN [cropX |-> (w - h) \div 2, cropY |-> 0, cropSize |-> h,
          width |-> size, height |-> size]
    ELSE [cropX |-> 0, cropY |-> (h - w) \div 2, cropSize |-> w,
          width |-> size, height |-> size]

\* Thumbnailer.Process with processStaticImage (processGIF computes the same
\* dimensions): the dimensions of the thumbnail of a w x h source
ThumbnailGeometry(w, h, params) ==
    LET size == IF params.size # <<>> THEN params.size[1] ELSE DefaultThumbnailSize
        cropToFit == params.crop_to_fit = <<TRUE>>
    IN  IF size <= 0 THEN [err |-> TRUE, width |-> 0, height |-> 0, crop |-> <<>>]
        ELSE IF cropToFit
        THEN [err |-> FALSE, width |-> cropAndResize(w, h, size).width,
              height |-> cropAndResize(w, h, size).height,
              crop |-> <<cropAndResize(w, h, size)>>]
        ELSE IF w > h
        THEN [err |-> FALSE, width |-> scaleEdge(w, size, h), height |-> size,
              crop |-> <<>>]
        ELSE [err |-> FALSE, width |-> size, height |-> scaleEdge(h, size, w),
              crop |-> <<>>]

\* Thumbnailer.Process: the size defaults to 200 and must be positive
ThumbnailProcess(format, params) ==
    LET size == IF params.size # <<>> THEN params.size[1] ELSE DefaultThumbnailSize
    IN  IF size <= 0 THEN [err |-> TRUE, format |-> ""]
        ELSE [err |-> FALSE, format |-> StaticFormat(format)]

\* ------------------------------------------------- float64 of the resize
\* The positive float64 values of Resizer.processStaticImage, bit for bit
\* (IEEE 754 binary64, round to nearest, ties to even): a value is [m, e], m
\* the Precision bits of the significand (the first one 1) and e the exponent
\* of the last of them.
RECURSIVE BitsOf(_)
BitsOf(n) == IF n = 0 THEN <<>> ELSE Append(BitsOf(n \div 2), n % 2)

RECURSIVE ValueOf(_)
ValueOf(bits) ==
    IF bits = <<>> THEN 0
    ELSE 2 * ValueOf(SubSeq(bits, 1, Len(bits) - 1)) + bits[Len(bits)]

\* the n bits of v, the first ones 0 when v is short
FixedBits(v, n) == [i \in 1 .. n |-> (v \div (2 ^ (n - i))) % 2]

\* the bits of the number after the one the bits spell
Increment(bits) ==
    LET zeros == {i \in 1 .. Len(bits) : bits[i] = 0}
    IN  IF zeros = {} THEN <<1>> \o [i \in 1 .. Len(bits) |-> 0]
        ELSE LET last == CHOOSE i \in zeros : \A j \in zeros : j <= i
             IN  [i \in 1 .. Len(bits) |->
                    IF i < last THEN bits[i] ELSE IF i = last THEN 1 ELSE 0]

\* the float64 nearest to an exact result of at least Precision bits whose last
\* bit has exponent e (sticky: a non-zero rest was dropped after the bits)
RoundToEven(bits, e, sticky) ==
    LET n == Len(bits)
        kept == SubSeq(bits, 1, Precision)
        rest == SubSeq(bits, Precision + 1, n)
        half == rest # <<>> /\ rest[1] = 1
        more == sticky \/ \E i \in 2 .. Len(rest) : rest[i] = 1
        roundUp == half /\ (more \/ kept[Precision] = 1)
        r == IF roundUp THEN Increment(kept) ELSE kept
    IN  IF Len(r) > Precision
        THEN [m |-> SubSeq(r, 1, Precision), e |-> e + (n - Precision) + 1]
        ELSE [m |-> r, e |-> e + (n - Precision)]

\* 2^k modulo b
RECURSIVE Pow2Mod(_, _)
Pow2Mod(k, b) ==
    IF k = 0 THEN 1 % b
    ELSE LET half == Pow2Mod(k \div 2, b)
         IN  (half * half * (IF k % 2 = 1 THEN 2 ELSE 1)) % b

\* long division of r by b, r < b: the k-th bit after the point
QuotientBit(r, b, k) == (2 * ((r * Pow2Mod(k - 1, b)) % b)) \div b

\* float64(a) / float64(b) for integers a, b >= 1
Float64Div(a, b) ==
    LET whole == BitsOf(a \div b)
        r == a % b
        first == IF whole # <<>> THEN 1
                 ELSE CHOOSE k \in 1 .. 31 :
                          /\ QuotientBit(r, b, k) = 1
                          /\ \A j \in 1 .. (k - 1) : QuotientBit(r, b, j) = 0
        need == Precision + 1 - Len(whole)
        last == first + need - 1
        bits == whole \o [k \in 1 .. need |-> QuotientBit(r, b, first + k - 1)]
    IN  RoundToEven(bits, -last, (r * Pow2Mod(last, b)) % b # 0)

\* the bits of w times the number the bits spell, computed on three parts of
\* the bits (the last two of Part bits each) with the carries between them
Times(bits, w) ==
    LET n == Len(bits)
        low == ValueOf(SubSeq(bits, n - Part + 1, n)) * w
        mid == ValueOf(SubSeq(bits, n - 2 * Part + 1, n - Part)) * w
                   + low \div (2 ^ Part)
        high == ValueOf(SubSeq(bits, 1, n - 2 * Part)) * w + mid \div (2 ^ Part)
    IN  BitsOf(high) \o FixedBits(mid % (2 ^ Part), Part)
            \o FixedBits(low % (2 ^ Part), Part)

\* float64(w) * x for an integer w >= 1
Float64Mul(w, x) == RoundToEven(Times(x.m, w), x.e, FALSE)

\* x < y
Float64Less(x, y) ==
    \/ x.e < y.e
    \/ /\ x.e = y.e
       /\ \E i \in 1 .. Precision :
              /\ x.m[i] < y.m[i]
              /\ \A j \in 1 .. (i - 1) : x.m[j] = y.m[j]

\* min of resize.go
min(x, y) == IF Float64Less(x, y) THEN x ELSE y

\* int(x): the fraction is cut off
IntOf(x) ==
    IF x.e >= 0 THEN ValueOf(x.m) * (2 ^ x.e)
    ELSE IF Precision + x.e <= 0 THEN 0
    ELSE ValueOf(SubSeq(x.m, 1, Precision + x.e))

\* Resizer.Process with processStaticImage (processGIF computes the same
\* dimensions): the dimensions of the resized image of a w x h source
ResizeGeometry(w, h, params) ==
    IF params.width = <<>> \/ params.height = <<>>
    THEN [err |-> TRUE, width |-> 0, height |-> 0]
    ELSE IF params.width[1] <= 0 \/ params.height[1] <= 0
    THEN [err |-> TRUE, width |-> 0, height |-> 0]
    ELSE IF params.keep_aspect = <<TRUE>>
    THEN LET widthRatio == Float64Div(params.width[1], w)
             heightRatio == Float64Div(params.height[1], h)
             ratio == min(widthRatio, heightRatio)
         IN  [err |-> FALSE, width |-> IntOf(Float64Mul(w, ratio)),
              height |-> IntOf(Float64Mul(h, ratio))]
    ELSE [err |-> FALSE, width |-> params.width[1], height |-> params.height[1]]

\* Resizer.Process: width and height are required and positive
ResizeProcess(format, params) ==
    IF params.width = <<>> \/ params.height = <<>> THEN [err |-> TRUE, format |-> ""]
    ELSE IF params.width[1] <= 0 \/ params.height[1] <= 0
    THEN [err |-> TRUE, format |-> ""]
    ELSE [err |-> FALSE, format |-> StaticFormat(format)]

WatermarkProcess(format, params) == [err |-> FALSE, format |-> WatermarkFormat(format)]

\* Variant of generatePath that puts the number of the run into the object key.
generatePathPerRun(imageID, operation, format, params) ==
    "processed/" \o operation \o "/" \o imageID \o "/" \o ToString(restarts)
        \o "." \o format

\* Variant of generatePath that leaves the size out of the thumbnail's key.
generatePathNoSize(imageID, operation, format, params) ==
    "processed/" \o operation \o "/" \o imageID \o "/processed." \o format

\* ImageProcessor.generatePath
generatePath(imageID, operation, format, params) ==
    CASE operation = OpResize ->
           LET width == IF params.width # <<>> THEN params.width[1] ELSE 0
               height == IF params.height # <<>> THEN params.height[1] ELSE 0
           IN  "processed/resize/" \o imageID \o "/" \o ToString(width) \o "x"
                   \o ToString(height) \o "." \o format
      [] operation = OpThumbnail ->
           LET s == IF params.size # <<>> THEN params.size[1] ELSE 0
               size == IF s = 0 THEN DefaultThumbnailSize ELSE s
           IN  "processed/thumbnails/" \o imageID \o "/" \o ToString(size)
                   \o "." \o format
      [] operation = OpWatermark ->
           "processed/watermarked/" \o imageID \o "/watermarked." \o format
      [] OTHER ->
           "processed/" \o operation \o "/" \o imageID \o "/processed." \o format

\* Variant of applyOperation whose switch has no default branch: a type it does
\* not know is handled as a thumbnail.
applyOperationAnyType(task, format, operation) ==
    LET r == CASE operation.Type = OpResize -> ResizeProcess(format, operation.Parameters)
               [] operation.Type = OpWatermark ->
                    WatermarkProcess(format, operation.Parameters)
               [] OTHER -> ThumbnailProcess(format, operation.Parameters)
    IN  IF r.err THEN [err |-> TRUE, path |-> "", data |-> DerivedData("", "")]
        ELSE [err |-> FALSE,
              path |-> generatePath(task.ImageID, operation.Type, r.format,
                                    operation.Parameters),
              data |-> DerivedData(r.format, operation.Type)]

\* ImageProcessor.applyOperation: dispatch on the type, then the derived path
applyOperation(task, format, operation) ==
    LET r == CASE operation.Type = OpResize -> ResizeProcess(format, operation.Parameters)
               [] operation.Type = OpThumbnail ->
                    ThumbnailProcess(format, operation.Parameters)
               [] operation.Type = OpWatermark ->
                    WatermarkProcess(format, operation.Parameters)
               [] OTHER -> [err |-> TRUE, format |-> ""]
    IN  IF r.err THEN [err |-> TRUE, path |-> "", data |-> DerivedData("", "")]
        ELSE [err |-> FALSE,
              path |-> generatePath(task.ImageID, operation.Type, r.format,
                                    operation.Parameters),
              data |-> DerivedData(r.format, operation.Type)]

\* targetFormat of ImageProcessor.Process
TargetFormat(task, decoded) == IF task.Format = "" THEN decoded ELSE task.Format

\* The image an operation draws: resizeImage and cropAndResize scale the image
\* they are given into a new RGBA, addTextWatermark copies it into a new RGBA and
\* draws the text there.
Rendered(img, operation) ==
    [of |-> img, by |-> operation.Type, with |-> operation.Parameters]

\* Variant of DecodedAfter in which the watermark is drawn into the image that
\* was passed in.
DecodedAfterDrawn(img, operation) ==
    IF operation.Type = OpWatermark
    THEN [img EXCEPT !.marks = Append(@, operation.Parameters.text)]
    ELSE img

\* The decoded image after an operation has run on it: no operation writes to
\* the image it is given.
DecodedAfter(img, operation) == img

\* The loop of ImageProcessor.Process over a storage that takes every object:
\* img is the image decoded before the loop, saved the objects written so far
\* (an object written under a path replaces the one that was there).
RECURSIVE ProcessFrom(_, _, _, _, _)
ProcessFrom(task, img, format, ops, saved) ==
    IF ops = <<>> THEN [err |-> FALSE, saved |-> saved]
    ELSE LET operation == Head(ops)
             r == applyOperation(task, format, operation)
             object == [path |-> r.path,
                        data |-> [encoded |-> r.data,
                                  image |-> Rendered(img, operation)]]
         IN  IF r.err THEN [err |-> TRUE, saved |-> saved]
             ELSE ProcessFrom(task, DecodedAfter(img, operation), format, Tail(ops),
                              {o \in saved : o.path # r.path} \cup {object})

\* ImageProcessor.Process on the image decoded from the original
Process(task, img, decoded) ==
    ProcessFrom(task, img, TargetFormat(task, decoded), task.Operations, {})

\* ------------------------------------------------------------ broker consumer
\* Run has closed its channel: close(messages) comes after <-ctx.Done()
ChannelClosed == run.pc \in {"waiting", "returned"}

\* the root context of Run is cancelled
Cancelled == run.pc \in {"cancelled", "waiting", "returned"}

\* The reader hands the next message of the partition to the forwarding
\* goroutine of ConsumerClient.Start, which records its offset.
C_Fetch ==
    /\ run.fwd = "running"
    /\ hold = NoMsg
    /\ fetchPos < Len(topic)
    /\ hold' = topic[fetchPos + 1]
    /\ latestOffset' = topic[fetchPos + 1].Offset
    /\ fetchPos' = fetchPos + 1
    /\ UNCHANGED <<up, del, storeVars, now, topic, committed, messages, hs,
                   restarts, runKeys, call, run>>

\* Variant of the forwarding step that queues without a limit.
C_ForwardUnbounded ==
    /\ run.fwd = "running"
    /\ ~ChannelClosed
    /\ hold # NoMsg
    /\ messages' = Append(messages, hold)
    /\ hold' = NoMsg
    /\ UNCHANGED <<up, del, storeVars, now, topic, committed, fetchPos,
                   latestOffset, hs, restarts, runKeys, call, run>>

\* out <- msg: blocks while the channel holds 2 * concurrency messages
C_Forward ==
    /\ run.fwd = "running"
    /\ ~ChannelClosed
    /\ hold # NoMsg
    /\ Len(messages) < 2 * Concurrency
    /\ messages' = Append(messages, hold)
    /\ hold' = NoMsg
    /\ UNCHANGED <<up, del, storeVars, now, topic, committed, fetchPos,
                   latestOffset, hs, restarts, runKeys, call, run>>

\* ConsumerClient.Commit, its guard: the offset is compared with latestOffset,
\* the field the forwarding goroutine writes with no synchronisation
CommitGuard(offset) == latestOffset = offset

\* ConsumerClient.Commit, its call of the Kafka consumer's Commit, which moves
\* the group's position to offset + 1
Commit(offset, ok) ==
    IF ~ok THEN [err |-> TRUE, committed |-> committed]
    ELSE [err |-> FALSE, committed |-> offset + 1]

\* --------------------------------------------------------------------- worker
\* a payload that is no JSON of a ProcessingTask
PoisonPayload == [raw |-> "{not a task"]

\* json.Unmarshal(msg.Value, &task)
Unmarshal(value) ==
    IF value = PoisonPayload THEN [err |-> TRUE, task |-> NoTask]
    ELSE [err |-> FALSE, task |-> value]

\* processWorker takes a message from the channel; processMessage unmarshals it:
\* a payload that does not parse makes processMessage return the error, and
\* processWorker commits only after a nil error
W_Receive(h) ==
    /\ hs[h].pc = "idle"
    /\ messages # <<>>
    /\ LET r == Unmarshal(Head(messages).Value)
       IN  hs' = [hs EXCEPT ![h] =
               IF r.err
               THEN IdleHandler
               ELSE [IdleHandler EXCEPT !.pc = "get", !.msg = Head(messages),
                                        !.task = r.task]]
    /\ messages' = Tail(messages)
    /\ UNCHANGED <<up, del, storeVars, now, topic, committed, fetchPos, hold,
                   latestOffset, restarts, runKeys, call, run>>

\* w.fileRepo.GetObject, io.ReadAll, and the decode at the head of Process
W_GetObject(h) ==
    /\ hs[h].pc = "get"
    /\ \E ok \in BOOLEAN :
         hs' = [hs EXCEPT ![h] =
             IF ok /\ Exists(store, hs[h].task.OriginalPath)
                   /\ Decodable(store[hs[h].task.OriginalPath].format)
             THEN [@ EXCEPT !.pc = IF Len(hs[h].task.Operations) = 0
                                   THEN "status" ELSE "ops",
                            !.decoded = store[hs[h].task.OriginalPath].format,
                            !.k = 1]
             ELSE [@ EXCEPT !.pc = "fail"]]
    /\ UNCHANGED <<up, del, storeVars, now, topic, consumerVars, restarts, runKeys, call, run>>

\* one round of the loop of Process: applyOperation, then SaveProcessed, then
\* result.ProcessedPaths[type] = path; after the last round the rows are next
W_Operation(h) ==
    /\ hs[h].pc = "ops"
    /\ LET task == hs[h].task
           operation == task.Operations[hs[h].k]
           r == applyOperation(task, TargetFormat(task, hs[h].decoded), operation)
           last == hs[h].k = Len(task.Operations)
       IN  \E ok \in BOOLEAN :
             IF r.err \/ ~ok
             THEN /\ hs' = [hs EXCEPT ![h].pc = "fail"]
                  /\ UNCHANGED <<store, runKeys>>
             ELSE /\ store' = SaveProcessed(store, r.path, r.data, ok)
                  /\ hs' = [hs EXCEPT ![h] =
                        [@ EXCEPT !.paths = (operation.Type :> r.path) @@ @,
                                  !.keys = @ \cup {r.path},
                                  !.k = @ + 1,
                                  !.todo = IF last
                                           THEN DOMAIN ((operation.Type :> r.path)
                                                            @@ hs[h].paths)
                                           ELSE {},
                                  !.pc = IF last THEN "record" ELSE "ops"]]
                  /\ runKeys' = IF last
                                THEN [runKeys EXCEPT ![task.ImageID] =
                                         Append(@, hs[h].keys \cup {r.path})]
                                ELSE runKeys
    /\ UNCHANGED <<up, del, images, rows, now, topic, consumerVars, restarts,
                   call, run>>

\* one round of the loop over result.ProcessedPaths: SaveProcessedImage, whose
\* failure is logged
W_Record(h) ==
    /\ hs[h].pc = "record"
    /\ \E operation \in hs[h].todo, ok \in BOOLEAN :
         /\ rows' = SaveProcessedImage(rows, hs[h].task.ImageID, operation,
                                       hs[h].paths[operation], ok)
         /\ hs' = [hs EXCEPT ![h].todo = @ \ {operation},
                             ![h].pc = IF hs[h].todo = {operation}
                                       THEN "status" ELSE "record"]
    /\ UNCHANGED <<up, del, images, store, now, topic, consumerVars, restarts,
                   runKeys, call, run>>

\* UpdateStatus(completed): a failure is logged; processMessage returns nil
W_Status(h) ==
    /\ hs[h].pc = "status"
    /\ \E ok \in BOOLEAN :
         images' = UpdateStatus(images, hs[h].task.ImageID, StatusCompleted, ok).images
    /\ hs' = [hs EXCEPT ![h].pc = "commit"]
    /\ UNCHANGED <<up, del, rows, store, now, topic, consumerVars, restarts, runKeys,
                   call, run>>

\* processWorker after a nil error: w.consumer.Commit(ctx, msg.Key, msg.Offset)
\* reads latestOffset and returns "offset mismatch" when it differs
W_Commit(h) ==
    /\ hs[h].pc = "commit"
    /\ hs' = [hs EXCEPT ![h] =
            IF CommitGuard(hs[h].msg.Offset) THEN [@ EXCEPT !.pc = "send"]
            ELSE IdleHandler]
    /\ UNCHANGED <<up, del, storeVars, now, topic, consumerVars, restarts, runKeys, call, run>>

\* the rest of ConsumerClient.Commit: c.consumer.Commit(ctx, fakeMsg); a failure
\* is logged by processWorker
W_CommitSend(h) ==
    /\ hs[h].pc = "send"
    /\ \E ok \in BOOLEAN : committed' = Commit(hs[h].msg.Offset, ok).committed
    /\ hs' = [hs EXCEPT ![h] = IdleHandler]
    /\ UNCHANGED <<up, del, storeVars, now, topic, fetchPos, hold, latestOffset,
                   messages, restarts, runKeys, call, run>>

\* Variant of the failure path of processMessage that returns nil, so that
\* processWorker commits the offset.
W_MarkFailedAndAck(h) ==
    /\ hs[h].pc = "fail"
    /\ \E ok \in BOOLEAN :
         images' = UpdateStatus(images, hs[h].task.ImageID, StatusFailed, ok).images
    /\ committed' = hs[h].msg.Offset + 1
    /\ hs' = [hs EXCEPT ![h] = IdleHandler]
    /\ UNCHANGED <<up, del, rows, store, now, topic, fetchPos, hold, latestOffset,
                   messages, restarts, runKeys, call, run>>

\* a failed fetch, read, decode, transform or artifact write: UpdateStatus(failed),
\* best effort, and the error is returned: no commit
W_MarkFailed(h) ==
    /\ hs[h].pc = "fail"
    /\ \E ok \in BOOLEAN :
         images' = UpdateStatus(images, hs[h].task.ImageID, StatusFailed, ok).images
    /\ hs' = [hs EXCEPT ![h] = IdleHandler]
    /\ UNCHANGED <<up, del, rows, store, now, topic, consumerVars, restarts, runKeys,
                   call, run>>

\* A panic inside applyOperation (the image libraries panic on dimensions they
\* cannot allocate): the deferred recover of safeProcessMessage turns it into
\* the returned error, processWorker logs it and takes the next message; no
\* status is written and nothing is committed.
W_Panic(h) ==
    /\ hs[h].pc = "ops"
    /\ hs[h].task.Operations[hs[h].k].Type \in {OpResize, OpThumbnail, OpWatermark}
    /\ hs' = [hs EXCEPT ![h] = IdleHandler]
    /\ UNCHANGED <<up, del, storeVars, now, topic, consumerVars, restarts, runKeys, call, run>>

\* The worker process is killed and started again (Run): the handlers and the
\* channel are gone, the reader resumes at the group's committed position.
WorkerRestart ==
    /\ restarts < MaxRestarts
    /\ restarts' = restarts + 1
    /\ hs' = [h \in Handlers |-> IdleHandler]
    /\ messages' = <<>>
    /\ hold' = NoMsg
    /\ latestOffset' = 0
    /\ fetchPos' = committed
    /\ UNCHANGED <<up, del, storeVars, now, topic, committed, runKeys, call, run>>

Next ==
    \/ \E c \in Calls : U_Start(c)
    \/ \E c \in Calls : U_SaveOriginal(c)
    \/ \E c \in Calls : U_Save(c)
    \/ \E c \in Calls : U_Publish(c)
    \/ \E c \in Calls : U_MarkFailed(c)
    \/ \E c \in Calls : U_UpdateProcessing(c)
    \/ \E c \in Calls : U_Defer(c)
    \/ \E c \in Calls : D_Start(c)
    \/ \E c \in Calls : D_DeleteObject(c)
    \/ \E c \in Calls : D_DeletePrefix(c)
    \/ \E c \in Calls : D_DeleteRows(c)
    \/ \E c \in Calls : D_Status(c)
    \/ C_Fetch
    \/ C_Forward
    \/ \E h \in Handlers : W_Receive(h)
    \/ \E h \in Handlers : W_GetObject(h)
    \/ \E h \in Handlers : W_Operation(h)
    \/ \E h \in Handlers : W_Record(h)
    \/ \E h \in Handlers : W_Status(h)
    \/ \E h \in Handlers : W_Commit(h)
    \/ \E h \in Handlers : W_CommitSend(h)
    \/ \E h \in Handlers : W_MarkFailed(h)
    \/ \E h \in Handlers : W_Panic(h)
    \/ WorkerRestart

Spec == Init /\ [][Next]_vars

\* ------------------------------------------------------------ the worker alone
\* The worker process over a topic that holds two messages with the key of one
\* uploaded image: the task of the image (once, or twice when the producer's
\* retry wrote it again) and payloads that do not parse.
UploadedCall ==
    [NoUpload EXCEPT !.pc = "done", !.size = 1024, !.kind = "jpeg",
                     !.ops = DefaultOperations, !.imageID = NewImageID(1),
                     !.originalPath = OriginalName(1, ".jpg"), !.ret = "ok",
                     !.imgStatus = StatusProcessing,
                     !.rowAtReturn = StatusProcessing]

TopicPayloads ==
    {[ID |-> "task1", ImageID |-> NewImageID(1),
      OriginalPath |-> OriginalName(1, ".jpg"), Bucket |-> "images",
      Operations |-> DefaultOperations, Format |-> "jpeg"],
     [ID |-> "task2", ImageID |-> NewImageID(1),
      OriginalPath |-> OriginalName(1, ".jpg"), Bucket |-> "images",
      Operations |-> <<ThumbnailOp(200, TRUE), [Type |-> OpCrop, Parameters |-> NoParams]>>,
      Format |-> "jpeg"],
     PoisonPayload}

WorkerInit ==
    /\ up = [c \in Calls |-> UploadedCall]
    /\ del = [c \in Calls |-> NoDelete]
    /\ images = [id \in ImageIDs |->
                    [status |-> StatusProcessing,
                     original_path |-> OriginalName(1, ".jpg")]]
    /\ rows = {}
    /\ store = Put(<<>>, OriginalName(1, ".jpg"), OriginalData("jpeg"))
    /\ now = 2
    /\ \E a \in TopicPayloads, b \in TopicPayloads :
         topic = SendTask(SendTask(<<>>, NewImageID(1), a), NewImageID(1), b)
    /\ committed = 0
    /\ fetchPos = 0
    /\ hold = NoMsg
    /\ latestOffset = 0
    /\ messages = <<>>
    /\ hs = [h \in Handlers |-> IdleHandler]
    /\ restarts = 0
    /\ runKeys = [id \in ImageIDs |-> <<>>]
    /\ call = NoCall
    /\ run = Serving

WorkerNext ==
    \/ C_Fetch
    \/ C_Forward
    \/ \E h \in Handlers : W_Receive(h)
    \/ \E h \in Handlers : W_GetObject(h)
    \/ \E h \in Handlers : W_Operation(h)
    \/ \E h \in Handlers : W_Record(h)
    \/ \E h \in Handlers : W_Status(h)
    \/ \E h \in Handlers : W_Commit(h)
    \/ \E h \in Handlers : W_CommitSend(h)
    \/ \E h \in Handlers : W_MarkFailed(h)
    \/ \E h \in Handlers : W_Panic(h)
    \/ WorkerRestart

WorkerSpec == WorkerInit /\ [][WorkerNext]_vars

\* ------------------------------------------------------------------ shutdown
\* the goroutine of Run that waits for SIGINT or SIGTERM calls cancel()
R_Signal ==
    /\ run.pc = "serving"
    /\ run' = [run EXCEPT !.pc = "cancelled"]
    /\ UNCHANGED <<up, del, storeVars, now, topic, consumerVars, hs, restarts, runKeys, call>>

\* Run after <-ctx.Done(): close(messages)
R_CloseChannel ==
    /\ run.pc = "cancelled"
    /\ run' = [run EXCEPT !.pc = "waiting"]
    /\ UNCHANGED <<up, del, storeVars, now, topic, consumerVars, hs, restarts, runKeys, call>>

\* Run after w.wg.Wait(): every processWorker has returned; the database and
\* the consumer are closed and Run returns
R_Close ==
    /\ run.pc = "waiting"
    /\ \A h \in Handlers : hs[h].pc = "stopped"
    /\ run' = [run EXCEPT !.pc = "returned", !.fwd = "stopped"]
    /\ hold' = NoMsg
    /\ UNCHANGED <<up, del, storeVars, now, topic, committed, fetchPos, latestOffset,
                   messages, hs, restarts, runKeys, call>>

\* processWorker between two messages: case <-ctx.Done(), or the closed and
\* empty channel: the goroutine returns
W_Stop(h) ==
    /\ hs[h].pc = "idle"
    /\ Cancelled
    /\ hs' = [hs EXCEPT ![h] = [IdleHandler EXCEPT !.pc = "stopped"]]
    /\ UNCHANGED <<up, del, storeVars, now, topic, consumerVars, restarts, runKeys, call, run>>

\* the forwarding goroutine of Start takes case <-ctx.Done() in one of its two
\* selects and returns; a message it holds is dropped
C_Stop ==
    /\ run.fwd = "running"
    /\ Cancelled
    /\ run.pc # "returned"
    /\ run' = [run EXCEPT !.fwd = "stopped"]
    /\ hold' = NoMsg
    /\ UNCHANGED <<up, del, storeVars, now, topic, committed, fetchPos, latestOffset,
                   messages, hs, restarts, runKeys, call>>

\* The forwarding goroutine took a message from the reader and its second
\* select takes `case out <- msg` after Run has closed the channel: the send
\* panics in a goroutine without recover, and the process dies with its
\* handlers.
C_SendClosed ==
    /\ run.fwd = "running"
    /\ run.pc = "waiting"
    /\ hold # NoMsg
    /\ run' = [pc |-> "crashed", fwd |-> "stopped"]
    /\ hs' = [h \in Handlers |-> [IdleHandler EXCEPT !.pc = "killed"]]
    /\ hold' = NoMsg
    /\ messages' = <<>>
    /\ UNCHANGED <<up, del, storeVars, now, topic, committed, fetchPos, latestOffset,
                   restarts, runKeys, call>>

ShutdownNext ==
    \/ C_Fetch
    \/ C_Forward
    \/ \E h \in Handlers : W_Receive(h)
    \/ \E h \in Handlers : W_GetObject(h)
    \/ \E h \in Handlers : W_Operation(h)
    \/ \E h \in Handlers : W_Record(h)
    \/ \E h \in Handlers : W_Status(h)
    \/ \E h \in Handlers : W_Commit(h)
    \/ \E h \in Handlers : W_CommitSend(h)
    \/ \E h \in Handlers : W_MarkFailed(h)
    \/ \E h \in Handlers : W_Panic(h)
    \/ R_Signal
    \/ R_CloseChannel
    \/ R_Close
    \/ \E h \in Handlers : W_Stop(h)
    \/ C_Stop
    \/ C_SendClosed

\* ---------------------------------------------------- the worker under a backlog
\* The worker process started over a topic that already holds more messages
\* than the channel of Run and the forwarding goroutine can take together: the
\* task of one image, then payloads that do not parse.
RECURSIVE Backlog(_)
Backlog(n) ==
    IF n = 0 THEN <<>>
    ELSE SendTask(Backlog(n - 1), NewImageID(1),
                  IF n = 1
                  THEN [ID |-> "task1", ImageID |-> NewImageID(1),
                        OriginalPath |-> OriginalName(1, ".jpg"), Bucket |-> "images",
                        Operations |-> <<ThumbnailOp(200, TRUE)>>, Format |-> "jpeg"]
                  ELSE PoisonPayload)

BacklogInit ==
    /\ up = [c \in Calls |-> UploadedCall]
    /\ del = [c \in Calls |-> NoDelete]
    /\ images = [id \in ImageIDs |->
                    [status |-> StatusProcessing,
                     original_path |-> OriginalName(1, ".jpg")]]
    /\ rows = {}
    /\ store = Put(<<>>, OriginalName(1, ".jpg"), OriginalData("jpeg"))
    /\ now = 2
    /\ topic = Backlog(2 * Concurrency + 1 + ExtraBacklog)
    /\ committed = 0
    /\ fetchPos = 0
    /\ hold = NoMsg
    /\ latestOffset = 0
    /\ messages = <<>>
    /\ hs = [h \in Handlers |-> IdleHandler]
    /\ restarts = 0
    /\ runKeys = [id \in ImageIDs |-> <<>>]
    /\ call = NoCall
    /\ run = Serving

BacklogSpec == BacklogInit /\ [][WorkerNext]_vars

\* the same worker, with the shutdown signal
ShutdownSpec == BacklogInit /\ [][ShutdownNext]_vars

\* ------------------------------------------------------------ function calls
\* The functions of the program that read no store are run one call at a time:
\* the call is drawn with its input, the step computes its result.
sysVars == <<up, del, images, rows, store, now, topic, committed, fetchPos, hold,
             latestOffset, messages, hs, restarts, runKeys, run>>

\* operations of one task: the types, and for each type the parameters it reads
PathOperations ==
    {ThumbnailOp(s, c) : s \in {100, 200}, c \in BOOLEAN}
        \cup {ResizeOp(w, 768, k) : w \in {800, 1024}, k \in BOOLEAN}
        \cup {WatermarkOp(x) : x \in {"draft", "final"}}

\* generatePath for two operations on one image with one output format
PathCalls ==
    {[fn |-> "generatePath", in |-> <<a, b, f>>, out |-> <<>>] :
        a \in PathOperations, b \in PathOperations, f \in {"jpeg", "png"}}

F_generatePath ==
    /\ call.fn = "generatePath"
    /\ call.out = <<>>
    /\ call' = [call EXCEPT !.out =
                   <<generatePath("id1", call.in[1].Type, call.in[3],
                                  call.in[1].Parameters),
                     generatePath("id1", call.in[2].Type, call.in[3],
                                  call.in[2].Parameters)>>]
    /\ UNCHANGED sysVars

\* ImageHandler.validateFile: the size of the part, the extension of the file
\* name, the declared Content-Type
validateFile(size, ext, declared) ==
    IF size > DefaultMaxUploadSize THEN "File is too large"
    ELSE IF ext \notin {".jpg", ".jpeg", ".png", ".gif", ".webp", ".bmp", ".tiff"}
    THEN "Unsupported file format"
    ELSE IF ~HasPrefix(declared, "image/") THEN "File must be an image"
    ELSE ""

\* ImageHandler.handleUploadError: the HTTP status of a failed UploadImage
handleUploadError(err) ==
    IF err = ErrInvalidFileFormat THEN 400
    ELSE IF err = ErrFileTooLarge THEN 413
    ELSE 500

\* ImageHandler.UploadImage: the body (the file part and the multipart
\* envelope around it) is read through http.MaxBytesReader, the form parsed,
\* the part validated and the use case called; usecase tells whether
\* ImageUsecase.UploadImage was called, stored whether it got past its gates
\* to the stores (ok: the stores then succeed).
HandlerUpload(in, ok) ==
    IF in.size + 1 > DefaultMaxUploadSize
    THEN [status |-> 400, usecase |-> FALSE, stored |-> FALSE]
    ELSE IF validateFile(in.size, in.ext, in.declared) # ""
    THEN [status |-> 400, usecase |-> FALSE, stored |-> FALSE]
    ELSE IF UploadGate(in.size, in.kind) # ""
    THEN [status |-> handleUploadError(UploadGate(in.size, in.kind)),
          usecase |-> TRUE, stored |-> FALSE]
    ELSE [status |-> IF ok THEN 202 ELSE 500, usecase |-> TRUE, stored |-> TRUE]

\* POST /upload requests: size of the file part, extension of the file name,
\* declared Content-Type, what the bytes are
UploadCalls ==
    {[fn |-> "UploadImage",
      in |-> [size |-> s, ext |-> e, declared |-> d, kind |-> k],
      out |-> <<>>] :
        s \in {0, 1024, DefaultMaxUploadSize, DefaultMaxUploadSize + 1},
        e \in {".jpg", ".txt"}, d \in {"image/jpeg", "text/plain"},
        k \in FileKinds}

F_UploadImage ==
    /\ call.fn = "UploadImage"
    /\ call.out = <<>>
    /\ (call.in.kind = "empty") <=> (call.in.size = 0)
    /\ \E ok \in BOOLEAN : call' = [call EXCEPT !.out = <<HandlerUpload(call.in, ok)>>]
    /\ UNCHANGED sysVars

\* The adapter's methods that take a path from their caller: each one runs
\* sanitizePath first and returns "invalid path" without calling MinIO when it
\* fails; otherwise MinIO is called with the sanitised name.
AdapterMethods == {"GetObject", "SaveProcessed", "DeleteObject", "DeleteObjectsWithPrefix"}

AdapterCall(s, method, path, ok) ==
    LET r == sanitizePath(path)
    IN  IF r.err THEN [err |-> "invalid path", io |-> FALSE, name |-> "", store |-> s]
        ELSE [err |-> IF ok THEN "" ELSE ErrStorageError,
              io |-> TRUE,
              name |-> r.path,
              store |->
                  CASE method = "SaveProcessed" ->
                           SaveProcessed(s, r.path, DerivedData("jpeg", OpThumbnail), ok)
                    [] method = "DeleteObject" -> DeleteObject(s, r.path, ok)
                    [] method = "DeleteObjectsWithPrefix" ->
                           IF ok THEN Remove(s, {q \in DOMAIN s : HasPrefix(q, r.path)})
                           ELSE s
                    [] OTHER -> s]

AdapterPaths ==
    {"processed/thumbnails/id1/200_x.jpg", "processed/id1/", "/etc/passwd",
     "../secret", "a/../b", "a/../../b", "/../etc", "./a//b", "..", ""}

AdapterCalls ==
    {[fn |-> m, in |-> [path |-> p], out |-> <<>>] :
        m \in AdapterMethods, p \in AdapterPaths}

F_Adapter ==
    /\ call.fn \in AdapterMethods
    /\ call.out = <<>>
    /\ \E ok \in BOOLEAN :
         LET r == AdapterCall(store, call.fn, call.in.path, ok)
         IN  /\ call' = [call EXCEPT !.out = <<[err |-> r.err, io |-> r.io, name |-> r.name]>>]
             /\ store' = r.store
    /\ UNCHANGED <<up, del, images, rows, now, topic, consumerVars, hs, restarts,
                   runKeys, run>>

\* parseOperationsFromForm on every combination of the form's fields
AllForms ==
    [thumbnail : {"", "true", "false"}, resize : {"", "true", "false"},
     watermark : {"", "true", "false"}, watermark_text : {"", "draft"}]

ParseCalls ==
    {[fn |-> "parseOperationsFromForm", in |-> f, out |-> <<>>] : f \in AllForms}

F_parseOperationsFromForm ==
    /\ call.fn = "parseOperationsFromForm"
    /\ call.out = <<>>
    /\ call' = [call EXCEPT !.out = <<parseOperationsFromForm(call.in)>>]
    /\ UNCHANGED sysVars

\* Thumbnailer.Process on sources up to MaxEdge x MaxEdge, with the sizes a
\* task may carry (none, zero, negative, smaller and larger than the source)
ThumbnailCalls ==
    {[fn |-> "Thumbnailer.Process",
      in |-> [w |-> w, h |-> h, params |-> p],
      out |-> <<>>] :
        w \in 1 .. MaxEdge, h \in 1 .. MaxEdge,
        p \in {[NoParams EXCEPT !.size = s, !.crop_to_fit = c] :
                  s \in {<<>>, <<-1>>, <<0>>, <<1>>, <<3>>, <<7>>},
                  c \in {<<>>, <<TRUE>>, <<FALSE>>}}}

F_Thumbnail ==
    /\ call.fn = "Thumbnailer.Process"
    /\ call.out = <<>>
    /\ call' = [call EXCEPT
                   !.out = <<ThumbnailGeometry(call.in.w, call.in.h, call.in.params)>>]
    /\ UNCHANGED sysVars

\* Resizer.Process on sources up to MaxEdge x MaxTall, with the boxes a task may
\* ask for (none, zero, and edges from 1 to MaxBox), with and without keep_aspect
ResizeCalls ==
    {[fn |-> "Resizer.Process",
      in |-> [w |-> w, h |-> h, params |-> p],
      out |-> <<>>] :
        w \in 1 .. MaxEdge, h \in 1 .. MaxTall,
        p \in {[NoParams EXCEPT !.width = bw, !.height = bh, !.keep_aspect = k] :
                  bw \in {<<>>, <<0>>, <<1>>, <<2>>, <<10>>, <<MaxBox>>},
                  bh \in {<<1>>, <<3>>, <<10>>, <<MaxBox>>},
                  k \in {<<>>, <<TRUE>>}}}

F_Resize ==
    /\ call.fn = "Resizer.Process"
    /\ call.out = <<>>
    /\ call' = [call EXCEPT
                   !.out = <<ResizeGeometry(call.in.w, call.in.h, call.in.params)>>]
    /\ UNCHANGED sysVars

\* applyOperation on the target format of a task and a decoded source: the
\* tags of the formats the upload knows, in the spelling of the domain and in
\* capitals, and no tag
FormatTags == {"", "jpg", "jpeg", "png", "gif", "webp", "bmp", "PNG", "GIF"}

FormatCalls ==
    {[fn |-> "applyOperation",
      in |-> [task |-> [ImageID |-> NewImageID(1), Operations |-> <<operation>>,
                        Format |-> f],
              decoded |-> d, operation |-> operation],
      out |-> <<>>] :
        f \in FormatTags, d \in {"jpeg", "png", "gif"},
        operation \in {ThumbnailOp(3, TRUE), ResizeOp(4, 3, FALSE), WatermarkOp("demo")}}

F_applyOperation ==
    /\ call.fn = "applyOperation"
    /\ call.out = <<>>
    /\ call' = [call EXCEPT
                   !.out = <<applyOperation(call.in.task,
                                            TargetFormat(call.in.task, call.in.decoded),
                                            call.in.operation)>>]
    /\ UNCHANGED sysVars

\* The message ConsumerClient.Start forwards for a message of the reader: key,
\* value and offset; topic and partition are not carried over.
Forwarded(kafkaMsg) ==
    [Key |-> kafkaMsg.Key, Value |-> kafkaMsg.Value, Offset |-> kafkaMsg.Offset]

\* fakeMsg of ConsumerClient.Commit
fakeMsg(key, offset) == [Partition |-> 0, Offset |-> offset, Key |-> key]

\* the group's committed positions, one per partition, after the reader has
\* committed message m: the position of m's partition is the offset after m
CommitMessage(positions, m) == [positions EXCEPT ![m.Partition] = m.Offset + 1]

\* Start delivers kafkaMsg (latestOffset is its offset), the handler processes
\* it and calls Commit(msg.Key, msg.Offset): the committed positions afterwards
CommitDelivered(positions, kafkaMsg) ==
    LET msg == Forwarded(kafkaMsg)
        latest == kafkaMsg.Offset
    IN  IF latest # msg.Offset THEN positions
        ELSE CommitMessage(positions, fakeMsg(msg.Key, msg.Offset))

\* the partitions of the topic
Partitions == 0 .. MaxPartition

\* Commit after the delivery of a message of any partition, at any committed
\* positions of the group
CommitCalls ==
    {[fn |-> "ConsumerClient.Commit",
      in |-> [kafkaMsg |-> [Partition |-> p, Offset |-> o, Key |-> NewImageID(1),
                            Value |-> [NoTask EXCEPT !.ID = "task1",
                                                     !.ImageID = NewImageID(1)]],
              positions |-> c],
      out |-> <<>>] :
        p \in Partitions, o \in 0 .. MaxOffset, c \in [Partitions -> 0 .. MaxOffset]}

F_Commit ==
    /\ call.fn = "ConsumerClient.Commit"
    /\ call.out = <<>>
    /\ call' = [call EXCEPT
                   !.out = <<CommitDelivered(call.in.positions, call.in.kafkaMsg)>>]
    /\ UNCHANGED sysVars

\* the operations of the tasks below: one of each type the switch knows, a
\* thumbnail the Thumbnailer rejects and a type the switch does not know
OpPool ==
    {ThumbnailOp(3, TRUE), ThumbnailOp(-1, TRUE), ResizeOp(4, 3, FALSE),
     WatermarkOp("demo"), [Type |-> OpCrop, Parameters |-> NoParams]}

\* the operation lists of up to MaxOps operations of distinct types
DistinctTypeLists ==
    {ops \in UNION {[1 .. n -> OpPool] : n \in 0 .. MaxOps} :
        \A i, j \in DOMAIN ops : i # j => ops[i].Type # ops[j].Type}

\* the decoded sources
Sources == {[w |-> 5, h |-> 3, marks |-> <<>>], [w |-> 2, h |-> 4, marks |-> <<>>]}

ProcessCalls ==
    {[fn |-> "Process",
      in |-> [task |-> [ImageID |-> NewImageID(1), Operations |-> ops, Format |-> f],
              img |-> img, decoded |-> "png"],
      out |-> <<>>] :
        ops \in DistinctTypeLists, img \in Sources, f \in {"", "jpeg"}}

F_Process ==
    /\ call.fn = "Process"
    /\ call.out = <<>>
    /\ call' = [call EXCEPT
                   !.out = <<Process(call.in.task, call.in.img, call.in.decoded)>>]
    /\ UNCHANGED sysVars

FnCalls ==
    PathCalls \cup UploadCalls \cup AdapterCalls \cup ParseCalls \cup ThumbnailCalls
        \cup ProcessCalls \cup ResizeCalls \cup FormatCalls \cup CommitCalls

FnInit == SysInit /\ call \in FnCalls /\ run = Serving

FnNext ==
    \/ F_generatePath
    \/ F_UploadImage
    \/ F_Adapter
    \/ F_parseOperationsFromForm
    \/ F_Thumbnail
    \/ F_Process
    \/ F_Resize
    \/ F_applyOperation
    \/ F_Commit

FnSpec == FnInit /\ [][FnNext]_vars

\* ===================================================================== claims
Terminal == {StatusCompleted, StatusFailed}

\* C1: every accepted upload reaches and keeps completed or failed (until it is
\* deleted). Stated on the runs that have ended for the image: once UploadImage
\* has returned the Image and the image's task is consumed and committed, no
\* step of the system but a delete writes the status again, so the status must
\* by then be completed or failed (or deleted).
C1_AcceptedUploadSettles ==
    \A c \in Calls :
        (ReturnedOK(c) /\ Consumed(up[c].imageID)) =>
            images[up[c].imageID].status \in Terminal \cup {StatusDeleted}

\* C2: whenever UploadImage has returned an Image without error (and no
\* DeleteImage of it has begun), the original object is in the object store at
\* the returned original_path, also when UpdateStatus(processing) failed.
C2_OriginalPresentAfterUpload ==
    \A c \in Calls :
        (ReturnedOK(c) /\ del[c].pc = "idle") => Exists(store, up[c].originalPath)

\* C3 as claimed: when UploadImage returns without error the row of the image
\* exists with status uploaded or processing at that moment, and exactly one
\* task message with the image's key is on the topic.
C3_RowUploadedOrProcessingAtReturn ==
    \A c \in Calls :
        ReturnedOK(c) =>
            /\ up[c].rowAtReturn \in {StatusUploaded, StatusProcessing}
            /\ Published(up[c].imageID) = 1

\* C3 amended: when UploadImage returns without error exactly one row of the
\* image exists and exactly one task message with its key is on the topic; the
\* Image that is returned carries uploaded or processing, while the stored
\* status at that moment is uploaded, processing, or already completed or
\* failed when a worker has handled the task.
C3_OneRowOneTaskAtReturn ==
    \A c \in Calls :
        ReturnedOK(c) =>
            /\ up[c].rowAtReturn \in
                   {StatusUploaded, StatusProcessing, StatusCompleted, StatusFailed}
            /\ up[c].imgStatus \in {StatusUploaded, StatusProcessing}
            /\ Published(up[c].imageID) = 1

\* C3 witness: an upload returned without error while a worker had already
\* completed its task.
C3_Witness ==
    \E c \in Calls : ReturnedOK(c) /\ up[c].rowAtReturn = StatusCompleted

\* C4: the status of a row never moves from completed or failed back to
\* processing or uploaded.
C4_StatusMonotonic ==
    [][\A id \in ImageIDs :
          images[id].status \in Terminal =>
              images'[id].status \notin {StatusProcessing, StatusUploaded}]_vars

\* C5: once DeleteImage(id) has returned successfully, GetByID(id) finds no
\* image and List does not hold it, in every later state.
C5_DeletedStaysInvisible ==
    \A c \in Calls :
        (del[c].pc = "done" /\ del[c].ret = "ok") =>
            /\ GetByID(images, up[c].imageID, TRUE).err = RepoErrImageNotFound
            /\ up[c].imageID \notin List(images)

\* the call ended with the object written, the row inserted and no task published
PublishFailed(c) ==
    /\ up[c].pc = "done"
    /\ up[c].originalPath # ""
    /\ images[up[c].imageID].status # NoRow
    /\ Published(up[c].imageID) = 0

FailedAfterWrite(c) ==
    up[c].pc = "done" /\ up[c].ret # "ok" /\ up[c].originalPath # ""

\* C7 as claimed: after a call that fails once the original was written, no
\* object remains at original_path; a failed insert gives database-error.
C7_NoOrphanAfterFailure ==
    \A c \in Calls :
        FailedAfterWrite(c) =>
            /\ ~Exists(store, up[c].originalPath)
            /\ images[up[c].imageID].status = NoRow => up[c].ret = ErrDatabaseError

\* C7 amended: a call that fails once the original was written runs the
\* compensating DeleteObject on original_path before it returns, and no object
\* remains there unless that DeleteObject itself fails (which is only logged);
\* a failed insert gives database-error.
C7_CompensationAfterFailure ==
    \A c \in Calls :
        FailedAfterWrite(c) =>
            /\ up[c].cleanup \in {"ok", "failed"}
            /\ Exists(store, up[c].originalPath) <=> up[c].cleanup = "failed"
            /\ images[up[c].imageID].status = NoRow => up[c].ret = ErrDatabaseError

\* C7 witness: the insert failed, the call returned database-error and the
\* original was removed.
C7_Witness ==
    \E c \in Calls :
        /\ FailedAfterWrite(c)
        /\ up[c].ret = ErrDatabaseError
        /\ up[c].cleanup = "ok"
        /\ ~Exists(store, up[c].originalPath)

\* the task published for the image of call c
TaskOf(c) == NewTask(c)

\* C8: for every image whose status is completed, processed_images holds a row
\* for each operation of its task, pointing at that operation's artifact, and
\* the artifact is in the object store.
C8_CompletedHasAllRows ==
    \A c \in Calls :
        (up[c].imageID # "" /\ images[up[c].imageID].status = StatusCompleted) =>
            \A k \in 1 .. Len(up[c].ops) :
                LET a == applyOperation(TaskOf(c), TaskOf(c).Format, up[c].ops[k])
                IN  /\ \E r \in RowsOf(rows, up[c].imageID, up[c].ops[k].Type) :
                          r.path = a.path
                    /\ Exists(store, a.path)

\* C9: however often a task is delivered again and processed, processed_images
\* holds at most one row per (image_id, operation).
C9_AtMostOneRowPerOperation ==
    \A id \in ImageIDs, op \in {OpThumbnail, OpResize, OpWatermark} :
        Cardinality(RowsOf(rows, id, op)) <= 1

PathsDone == call.fn = "generatePath" /\ call.out # <<>>

\* C11 as claimed: two operations on one image that differ in type or in any
\* parameter are written to different paths.
C11_PathsCollisionFree ==
    (PathsDone /\ call.in[1] # call.in[2]) => call.out[1] # call.out[2]

\* C11 amended: two operations on one image (same output format) are written
\* to different paths exactly when they differ in type, in the thumbnail size
\* or in the resize width or height; operations that differ only in another
\* parameter (crop_to_fit, keep_aspect, the watermark text) share one path.
C11_PathsDifferByTypeAndSize ==
    PathsDone =>
        LET a == call.in[1]
            b == call.in[2]
        IN  (call.out[1] # call.out[2]) <=>
                \/ a.Type # b.Type
                \/ a.Parameters.size # b.Parameters.size
                \/ a.Parameters.width # b.Parameters.width
                \/ a.Parameters.height # b.Parameters.height

\* C11 witness: two thumbnails of size 200, one cropped and one not, got the
\* same path.
C11_Witness ==
    /\ PathsDone
    /\ call.in[1] = ThumbnailOp(200, TRUE)
    /\ call.in[2] = ThumbnailOp(200, FALSE)
    /\ call.out[1] = call.out[2]

\* handler h ends the failure path of processMessage in this step
FailureHandled(h) ==
    hs[h].pc = "fail" /\ hs'[h].pc = "idle" /\ restarts' = restarts

\* C12 as claimed: a task-level failure in the worker leaves the Image failed
\* and the handler does not commit the offset of the message.
C12_FailureMarksFailedNoAck ==
    [][\A h \in Handlers :
          FailureHandled(h) =>
              /\ images'[hs[h].task.ImageID].status = StatusFailed
              /\ committed' = committed]_vars

\* C12 amended: on a task-level failure the handler calls UpdateStatus(failed)
\* best effort (the row becomes failed, or is left as it was when the update
\* itself fails) and does not commit the offset of the message.
C12_FailureAttemptsFailedNoAck ==
    [][\A h \in Handlers :
          FailureHandled(h) =>
              /\ \/ images'[hs[h].task.ImageID].status = StatusFailed
                 \/ images' = images
              /\ \A id \in ImageIDs :
                     id # hs[h].task.ImageID => images'[id] = images[id]
              /\ committed' = committed]_vars

\* C12 witness: a handler has failed the task of an image: the row is failed,
\* the message is neither committed nor in any handler's hands.
C12_Witness ==
    \E id \in ImageIDs :
        /\ images[id].status = StatusFailed
        /\ Published(id) = 1
        /\ committed = 0
        /\ fetchPos = 1
        /\ ~InFlight(id)
        /\ restarts = 0

\* the message at offset o was taken by a handler, which is done with it
Handled(o) ==
    /\ restarts = 0
    /\ fetchPos > o
    /\ hold.Offset # o
    /\ \A i \in 1 .. Len(messages) : messages[i].Offset # o
    /\ \A h \in Handlers : hs[h].msg.Offset # o

\* C13: once a handler is done with a message whose payload does not parse,
\* the offset of that message is committed.
C13_PoisonIsAcked ==
    \A o \in 0 .. Len(topic) - 1 :
        (topic[o + 1].Value = PoisonPayload /\ Handled(o)) => committed > o

\* the derived artifacts of an image that are in the object store
ArtifactsOf(s, id) ==
    {q \in DOMAIN s : HasPrefix(q, "processed/") /\ Contains(q, "/" \o id \o "/")}

\* DeleteImage has returned nil for an image it found completed, whose task
\* was committed and out of the worker's hands before the delete began
DeletedCompleted(c) ==
    /\ del[c].pc = "done"
    /\ del[c].ret = "ok"
    /\ del[c].status = StatusCompleted
    /\ del[c].settled

\* C14: after DeleteImage succeeds on a completed image the original and the
\* derived artifacts of the image are gone from the object store, no
\* processed_images row of the image remains, the status is deleted and
\* GetStatus reports image-not-found.
C14_DeleteCascade ==
    \A c \in Calls :
        DeletedCompleted(c) =>
            /\ ~Exists(store, del[c].originalPath)
            /\ ArtifactsOf(store, up[c].imageID) = {}
            /\ \A op \in {OpThumbnail, OpResize, OpWatermark} :
                   RowsOf(rows, up[c].imageID, op) = {}
            /\ images[up[c].imageID].status = StatusDeleted
            /\ GetStatus(images, up[c].imageID, TRUE).err = ErrImageNotFound

\* C15: for an id that has no row or whose row is deleted, GetStatus, GetImage
\* and DeleteImage return image-not-found, which the handler answers with 404.
C15_MissingImageIsNotFound ==
    \A id \in ImageIDs :
        images[id].status \in {NoRow, StatusDeleted} =>
            /\ GetStatus(images, id, TRUE).err = ErrImageNotFound
            /\ handleStatusError(GetStatus(images, id, TRUE).err) = 404
            /\ GetImageError(images, id, TRUE) = ErrImageNotFound
            /\ DeleteImageError(images, id, TRUE) = ErrImageNotFound

\* handler h is processing a message
Busy(h) == hs[h].pc # "idle"

\* C16: no two handlers of the pool process two messages with the same key at
\* the same time: a later message of a key is not started before the earlier
\* one has finished.
C16_SameKeyOneHandler ==
    \A h1, h2 \in Handlers :
        (h1 # h2 /\ Busy(h1) /\ Busy(h2)) => hs[h1].msg.Key # hs[h2].msg.Key

\* the handler has answered the POST of a file
UploadAnswered == call.fn = "UploadImage" /\ call.out # <<>>

\* C17: a POST whose file exceeds MaxUploadSize is answered 413
\* (file-too-large), and nothing is written: the call never gets to the stores.
C17_OversizeIs413 ==
    (UploadAnswered /\ call.in.size > DefaultMaxUploadSize) =>
        /\ call.out[1].status = 413
        /\ ~call.out[1].stored

\* UploadImage returned for a payload within the size limit whose bytes
\* http.DetectContentType does not take for an image
NonImageReturned(c) ==
    /\ up[c].pc = "done"
    /\ up[c].size <= DefaultMaxUploadSize
    /\ ~HasPrefix(DetectContentType(up[c].kind), "image/")

\* C18: for every payload whose first bytes are not detected as image/*,
\* UploadImage fails with invalid-file-format and writes nothing to the object
\* store, the metadata store or the broker.
C18_NonImageIsInvalidFormat ==
    \A c \in Calls :
        NonImageReturned(c) =>
            /\ up[c].ret = ErrInvalidFileFormat
            /\ up[c].imageID = "" /\ up[c].originalPath = ""
            /\ store = <<>> /\ rows = {} /\ topic = <<>>

\* the adapter has answered a call with a path that holds a ".." element or
\* starts with "/"
UnsafePathAnswered ==
    /\ call.fn \in AdapterMethods
    /\ call.out # <<>>
    /\ \/ HasPrefix(call.in.path, "/")
       \/ \E i \in DOMAIN SplitPath(call.in.path) : SplitPath(call.in.path)[i] = ".."

\* C19: for every path given to GetObject, SaveProcessed, DeleteObject or
\* DeleteObjectsWithPrefix that contains a ".." segment or is absolute, the
\* adapter returns invalid-path and performs no object-store I/O.
C19_UnsafePathRejected ==
    UnsafePathAnswered =>
        /\ call.out[1].err = "invalid path"
        /\ ~call.out[1].io
        /\ store = <<>>

\* the upload came with a form none of whose operation fields is "true"
EmptyOperationList(c) ==
    /\ up[c].form # <<>>
    /\ up[c].form[1].thumbnail # "true"
    /\ up[c].form[1].resize # "true"
    /\ up[c].form[1].watermark # "true"

Commits(h) ==
    /\ hs[h].pc = "send"
    /\ hs'[h].pc = "idle"
    /\ committed' = hs[h].msg.Offset + 1

\* C21: the offset of a parsed task message is committed only after
\* UpdateStatus(completed) has succeeded for the task's image: no message is
\* committed while its image is uploaded, processing or failed.
C21_CommitOnlyWhenCompleted ==
    [][\A h \in Handlers :
          Commits(h) => images[hs[h].task.ImageID].status = StatusCompleted]_vars

\* In this step handler h ran a step of the per-artifact flow and the step
\* failed: operation k was not finished (transform or artifact write), or the
\* insert of a ProcessedImage row added nothing.
ArtifactStepFails(h) ==
    /\ restarts' = restarts
    /\ hs'[h] # hs[h]
    /\ \/ hs[h].pc = "ops" /\ hs'[h].k = hs[h].k
       \/ hs[h].pc = "record" /\ rows' = rows

\* C22: when the transform, the artifact write or the row insert of an
\* operation fails, the handler goes on to mark the image failed and does not
\* commit; no later operation is applied or stored.
C22_ArtifactFailureFailsTask ==
    [][\A h \in Handlers :
          ArtifactStepFails(h) =>
              /\ hs'[h].pc = "fail"
              /\ store' = store
              /\ committed' = committed]_vars

\* in this step a panic of handler h is recovered
PanicRecovered(h) ==
    /\ restarts' = restarts
    /\ hs[h].pc = "ops"
    /\ hs'[h].pc = "idle"

\* C23: a panic raised while a handler processes a message is recovered for
\* that message only: the handler is free for the next message, the image of
\* the task is marked failed and the offset of the message is not committed.
C23_PanicMarksFailedNoAck ==
    [][\A h \in Handlers :
          PanicRecovered(h) =>
              /\ hs'[h] = IdleHandler
              /\ images'[hs[h].task.ImageID].status = StatusFailed
              /\ committed' = committed]_vars

\* C24: a commit goes through only for the offset most recently delivered by
\* the fetch loop: no offset is committed that differs from it, and none that
\* has not been delivered, however the fetch loop and the handlers' Commit
\* calls interleave.
C24_CommitOnlyLatestDelivered ==
    [][\A h \in Handlers :
          Commits(h) =>
              /\ hs[h].msg.Offset = latestOffset
              /\ hs[h].msg.Offset < fetchPos]_vars

\* messages the fetch loop has delivered and no handler has taken yet
Waiting == Len(messages) + (IF hold = NoMsg THEN 0 ELSE 1)

\* C25: the messages delivered by the fetch loop and not yet taken by a handler
\* never exceed the capacity 2 * Concurrency of the channel plus the one
\* message the forwarding goroutine holds.
C25_Backpressure ==
    /\ Len(messages) <= 2 * Concurrency
    /\ Waiting <= 2 * Concurrency + 1

\* C25 witness: the channel is full, the forwarding goroutine holds a message
\* and the topic has more.
C25_Witness ==
    /\ Len(messages) = 2 * Concurrency
    /\ hold # NoMsg
    /\ fetchPos < Len(topic)

\* C26: after the shutdown signal every handler finishes the message it is
\* processing and terminates, Run returns, and the database and the consumer
\* are closed only after all handlers have terminated: the process does not
\* die on the way, and when Run has returned every handler has returned.
C26_GracefulShutdown ==
    /\ run.pc # "crashed"
    /\ run.pc = "returned" => \A h \in Handlers : hs[h].pc = "stopped"

\* the typed error kinds of the use case
TypedErrors ==
    {ErrFileTooLarge, ErrInvalidFileFormat, ErrStorageError, ErrDatabaseError,
     ErrMessageQueueError}

\* C27: every error UploadImage returns is one of the typed kinds, whatever
\* step of the ingest sequence failed, the read of the file header included.
C27_UploadErrorsAreTyped ==
    \A c \in Calls :
        (up[c].pc = "done" /\ up[c].ret # "ok") => up[c].ret \in TypedErrors

\* handler h stands at an operation of its task whose type is none of
\* thumbnail, resize, watermark: before the dispatch, or on the failure path
\* after it
AtUnsupported(h) ==
    /\ hs[h].pc \in {"ops", "fail"}
    /\ hs[h].k \in 1 .. Len(hs[h].task.Operations)
    /\ hs[h].task.Operations[hs[h].k].Type \notin {OpResize, OpThumbnail, OpWatermark}

\* handler h takes a step of its own
Steps(h) == hs'[h] # hs[h] /\ restarts' = restarts

\* C28 as claimed: a task with an operation of an unsupported type fails: the
\* image ends failed and the message is not committed.
C28_UnsupportedFailsTask ==
    [][\A h \in Handlers :
          (AtUnsupported(h) /\ Steps(h)) =>
              /\ hs[h].pc = "ops" => hs'[h].pc = "fail" /\ store' = store
              /\ hs[h].pc = "fail" =>
                     images'[hs[h].task.ImageID].status = StatusFailed
              /\ committed' = committed]_vars

\* C28 amended: the dispatch on an unsupported type fails and writes nothing;
\* the handler then calls UpdateStatus(failed) best effort (the image becomes
\* failed, or keeps its status when the update itself fails) and does not
\* commit the message.
C28_UnsupportedAttemptsFailed ==
    [][\A h \in Handlers :
          (AtUnsupported(h) /\ Steps(h)) =>
              /\ hs[h].pc = "ops" =>
                     hs'[h].pc = "fail" /\ store' = store /\ images' = images
              /\ hs[h].pc = "fail" =>
                     /\ hs'[h] = IdleHandler
                     /\ \/ images'[hs[h].task.ImageID].status = StatusFailed
                        \/ images' = images
              /\ committed' = committed]_vars

\* C28 witness: the dispatch on a crop operation has failed, the handler is on
\* the failure path, the thumbnail before it is stored.
C28_Witness ==
    \E h \in Handlers :
        /\ AtUnsupported(h)
        /\ hs[h].pc = "fail"
        /\ hs[h].task.Operations[hs[h].k].Type = OpCrop
        /\ hs[h].keys # {}

\* ImageProcessor.Process has returned
ProcessDone == call.fn = "Process" /\ call.out # <<>>

\* the same task with its operations in another order
Reordered(task) ==
    {[task EXCEPT !.Operations = [i \in DOMAIN task.Operations |->
                                       task.Operations[q[i]]]] :
        q \in Permutations(DOMAIN task.Operations)}

\* the task with one of its operations alone
Alone(task, operation) == [task EXCEPT !.Operations = <<operation>>]

\* C29 as claimed: permuting the operations of a task (all of distinct types)
\* yields the same set of (path, artifact) pairs.
C29_PermutationSamePairs ==
    ProcessDone =>
        \A other \in Reordered(call.in.task) :
            Process(other, call.in.img, call.in.decoded).saved = call.out[1].saved

\* C29, amended: every (path, artifact) pair Process writes is the pair the
\* operation yields when it is the only operation of the task, and when every
\* operation of the task succeeds, every order of the operations (all of
\* distinct types) yields the same set of pairs.
C29_OperationIndependence ==
    ProcessDone =>
        /\ \A o \in call.out[1].saved :
               \E i \in DOMAIN call.in.task.Operations :
                   Process(Alone(call.in.task, call.in.task.Operations[i]),
                           call.in.img, call.in.decoded).saved = {o}
        /\ ~call.out[1].err =>
               \A other \in Reordered(call.in.task) :
                   Process(other, call.in.img, call.in.decoded).saved
                       = call.out[1].saved

\* C29 witness: a task of three operations of distinct types, the watermark
\* first, was processed and all three artifacts were written.
C29_Witness ==
    /\ ProcessDone
    /\ Len(call.in.task.Operations) = 3
    /\ call.in.task.Operations[1].Type = OpWatermark
    /\ ~call.out[1].err
    /\ Cardinality(call.out[1].saved) = 3

\* Thumbnailer.Process has returned
ThumbnailDone == call.fn = "Thumbnailer.Process" /\ call.out # <<>>

\* the size of the call (200 when the task gives none)
ThumbnailSize ==
    IF call.in.params.size # <<>> THEN call.in.params.size[1] ELSE DefaultThumbnailSize

ShortEdge(w, h) == IF w < h THEN w ELSE h
LongEdge(w, h) == IF w < h THEN h ELSE w

\* C30: a size <= 0 is rejected with an error. For size > 0, with crop_to_fit
\* the output is size x size, taken from the largest square of the source,
\* centred (the margins on the long edge differ by at most one pixel); without
\* crop_to_fit the short edge of the output is size, the long edge is
\* size * longEdge / shortEdge with the fraction cut off, and the long edge of
\* the source stays the long edge.
C30_ThumbnailGeometry ==
    ThumbnailDone =>
        LET w == call.in.w
            h == call.in.h
            r == call.out[1]
            size == ThumbnailSize
        IN  IF size <= 0 THEN r.err
            ELSE /\ ~r.err
                 /\ call.in.params.crop_to_fit = <<TRUE>> =>
                        LET c == r.crop[1]
                        IN  /\ r.width = size /\ r.height = size
                            /\ c.cropSize = ShortEdge(w, h)
                            /\ c.cropX >= 0 /\ c.cropY >= 0
                            /\ (w - c.cropSize) - 2 * c.cropX \in {0, 1}
                            /\ (h - c.cropSize) - 2 * c.cropY \in {0, 1}
                 /\ call.in.params.crop_to_fit # <<TRUE>> =>
                        /\ ShortEdge(r.width, r.height) = size
                        /\ LongEdge(r.width, r.height) * ShortEdge(w, h)
                               <= size * LongEdge(w, h)
                        /\ size * LongEdge(w, h)
                               < (LongEdge(r.width, r.height) + 1) * ShortEdge(w, h)
                        /\ w > h => r.width >= r.height
                        /\ h > w => r.height >= r.width

\* C30 witness: a 5 x 3 source without crop_to_fit and size 7 gave 11 x 7 (the
\* fraction of 35/3 cut off).
C30_Witness ==
    /\ ThumbnailDone
    /\ call.in.w = 5 /\ call.in.h = 3
    /\ ThumbnailSize = 7
    /\ call.in.params.crop_to_fit # <<TRUE>>
    /\ call.out[1].width = 11 /\ call.out[1].height = 7

\* C33: after DeleteImage returns successfully for an image whose processing
\* completed, no object remains under the prefixes generatePath writes the
\* artifacts of the image to (processed/thumbnails/{id}/, processed/resize/{id}/,
\* processed/watermarked/{id}/).
C33_DeleteRemovesArtifacts ==
    \A c \in Calls :
        DeletedCompleted(c) =>
            \A q \in DOMAIN store :
                \A dir \in {"thumbnails", "resize", "watermarked"} :
                    ~HasPrefix(q, "processed/" \o dir \o "/" \o up[c].imageID \o "/")

\* the Commit call of handler h for a message it processed without error
\* returns "offset mismatch"
CommitRejected(h) ==
    /\ hs[h].pc = "commit"
    /\ ~CommitGuard(hs[h].msg.Offset)
    /\ hs'[h] = IdleHandler
    /\ restarts' = restarts

\* C34: for every message whose processing succeeds the Commit call of the
\* worker is accepted by the consumer adapter, however many later messages the
\* fetch loop has delivered in the meantime.
C34_SuccessfulCommitAccepted ==
    [][\A h \in Handlers : ~CommitRejected(h)]_vars

\* the message at offset o is a task whose processing fails whenever it is
\* tried (it holds an operation applyOperation does not know), a handler has
\* tried it and is done with it
FailedAt(o) ==
    /\ topic[o + 1].Value # PoisonPayload
    /\ \E k \in DOMAIN topic[o + 1].Value.Operations :
           topic[o + 1].Value.Operations[k].Type = OpCrop
    /\ Handled(o)

\* C35: the committed position of the partition never advances past a message
\* whose processing failed: such a message stays unconsumed, so that it is
\* delivered again after a restart.
C35_CommittedNeverPassesFailed ==
    \A o \in 0 .. Len(topic) - 1 : FailedAt(o) => committed <= o

\* the forwarding goroutine sends the message it holds on the channel Run has
\* closed
SendsOnClosed ==
    /\ ChannelClosed
    /\ hold # NoMsg
    /\ run.fwd = "running"
    /\ run'.pc = "crashed"

\* C36: during shutdown no goroutine sends on the closed messages channel,
\* however Run and the forwarding goroutine of the consumer interleave.
C36_NoSendOnClosedChannel == [][~SendsOnClosed]_vars

\* Commit has returned for a message the handler processed
CommitDone == call.fn = "ConsumerClient.Commit" /\ call.out # <<>>

\* C37: a successful Commit for a message fetched from partition p advances
\* the committed offset of partition p and of no other partition.
C37_CommitOnOwnPartition ==
    CommitDone =>
        /\ call.out[1][call.in.kafkaMsg.Partition] = call.in.kafkaMsg.Offset + 1
        /\ \A q \in Partitions :
               q # call.in.kafkaMsg.Partition =>
                   call.out[1][q] = call.in.positions[q]

\* applyOperation has returned for a target format and an operation
FormatDone == call.fn = "applyOperation" /\ call.out # <<>>

\* the target format the claim names: the task's format when set, otherwise
\* the format the decoder detected
ClaimedTarget == IF call.in.task.Format # "" THEN call.in.task.Format ELSE call.in.decoded

\* the mapping of the claim on a tag
ClaimedFormat(tag, type) ==
    CASE tag \in {"jpg", "jpeg"} -> "jpeg"
      [] tag = "png" -> "png"
      [] tag = "gif" /\ type \in {OpThumbnail, OpResize} -> "gif"
      [] OTHER -> "jpeg"

HasSuffix(s, p) == Len(s) >= Len(p) /\ SubSeq(s, Len(s) - Len(p) + 1, Len(s)) = p

\* C32 as claimed: the resulting format, the extension of the derived path, is
\* jpeg for jpg|jpeg, png for png, gif for gif under thumbnail and resize, and
\* jpeg for every other tag and for gif under watermark.
C32_FormatMapping ==
    FormatDone =>
        /\ ~call.out[1].err
        /\ call.out[1].data.format
               = ClaimedFormat(ClaimedTarget, call.in.operation.Type)
        /\ HasSuffix(call.out[1].path,
                     "." \o ClaimedFormat(ClaimedTarget, call.in.operation.Type))

\* C32, amended: the mapping is applied to the tag in lower case, so PNG gives
\* png and GIF gives gif (jpeg under watermark).
C32_FormatMappingLowerCase ==
    FormatDone =>
        /\ ~call.out[1].err
        /\ call.out[1].data.format
               = ClaimedFormat(ToLower(ClaimedTarget), call.in.operation.Type)
        /\ HasSuffix(call.out[1].path,
                     "." \o ClaimedFormat(ToLower(ClaimedTarget),
                                          call.in.operation.Type))

\* C32 witness: a watermark on a task without a format whose source decoded
\* as gif was written as jpeg.
C32_Witness ==
    /\ FormatDone
    /\ call.in.task.Format = ""
    /\ call.in.decoded = "gif"
    /\ call.in.operation.Type = OpWatermark
    /\ call.out[1].data.format = "jpeg"
    /\ HasSuffix(call.out[1].path, "/watermarked.jpeg")

\* Resizer.Process has returned the dimensions of a keep_aspect resize
KeepAspectDone ==
    /\ call.fn = "Resizer.Process"
    /\ call.out # <<>>
    /\ call.in.params.keep_aspect = <<TRUE>>
    /\ ~call.out[1].err

\* out is orig * min(width/origWidth, height/origHeight), computed exactly,
\* rounded to a nearest integer (a tie may go either way)
IsRoundedEdge(out, orig) ==
    LET width == call.in.params.width[1]
        height == call.in.params.height[1]
        num == IF width * call.in.h <= height * call.in.w THEN width ELSE height
        den == IF width * call.in.h <= height * call.in.w THEN call.in.w
               ELSE call.in.h
    IN  2 * den * out - 2 * orig * num \in (0 - den) .. den

\* C31: with keep_aspect the output dimensions are round(orig * factor), factor
\* = min(width/origWidth, height/origHeight), and the output fits inside the
\* requested box.
C31_KeepAspectRounded ==
    KeepAspectDone =>
        /\ IsRoundedEdge(call.out[1].width, call.in.w)
        /\ IsRoundedEdge(call.out[1].height, call.in.h)
        /\ call.out[1].width <= call.in.params.width[1]
        /\ call.out[1].height <= call.in.params.height[1]

\* C38: with keep_aspect both computed output dimensions are at least 1.
C38_KeepAspectNonEmpty ==
    KeepAspectDone => call.out[1].width >= 1 /\ call.out[1].height >= 1

====
